---- MODULE Spec2Model ----
(***************************************************************************)
(* Equi7Grid tiling engine (src/src/equi7grid/equi7grid.py).               *)
(*                                                                         *)
(* Python strings are sequences of one-character strings, so that slicing, *)
(* splitting, padding and int() act on characters as they do in the code.  *)
(* A call's outcome is a record [ok, err, val]: ok = FALSE stands for a    *)
(* raised exception, err names which one.                                  *)
(***************************************************************************)
EXTENDS Integers, Sequences, FiniteSets, TLC

VARIABLES
  grid,   \* the Equi7Grid under use: [built, sampling, tile_names_in_m, tiletype, tile_xsize_m, tile_ysize_m]
  pc,     \* "new": nothing called yet; "ready": a grid is constructed; "done": a call returned
  op,     \* name of the method that was called last
  args,   \* its arguments
  ret     \* its outcome

vars == <<grid, pc, op, args, ret>>

(***************************************************************************)
(* Outcomes                                                                *)
(***************************************************************************)
Ok(v) == [ok |-> TRUE, err |-> "", val |-> v]

Fail(e) == [ok |-> FALSE, err |-> e, val |-> <<>>]

\* the statements after a call that may raise: they run on its value, or
\* the exception propagates
Then(r, f(_)) == IF r.ok THEN f(r.val) ELSE r

\* the messages of Equi7TilingSystem.__init__ and the other exceptions raised
MSG1 == "tilename is not properly defined"

MSG2 == "must be multiples of"

MSG3 == "Tilecode must be one of T6, T3, T1"

ERR_RESOLUTION == "Resolution is badly defined"

ERR_INT == "invalid literal for int()"

ERR_INDEX == "IndexError"

ERR_TYPE == "TypeError"

ERR_SAMPLING == "Sampling is not supported"

ERR_TILETYPE == "Given resolution is not supported"

(***************************************************************************)
(* Python string primitives                                                *)
(***************************************************************************)
Min(a, b) == IF a < b THEN a ELSE b

Max(a, b) == IF a > b THEN a ELSE b

DigitChars == <<"0", "1", "2", "3", "4", "5", "6", "7", "8", "9">>

IsDigit(c) == \E i \in 1..10 : DigitChars[i] = c

DigitVal(c) == (CHOOSE i \in 1..10 : DigitChars[i] = c) - 1

RECURSIVE NatStr(_)
NatStr(n) == IF n < 10 THEN <<DigitChars[n + 1]>>
             ELSE NatStr(n \div 10) \o <<DigitChars[(n % 10) + 1]>>

\* str(n) of an int
Str(n) == IF n < 0 THEN <<"-">> \o NatStr(0 - n) ELSE NatStr(n)

\* s.rjust(w, c)
RJust(s, w, c) == IF Len(s) >= w THEN s ELSE [i \in 1..(w - Len(s)) |-> c] \o s

\* "{:03d}".format(n): the sign counts in the width, and zeros follow it
Format03d(n) == IF n < 0 THEN <<"-">> \o RJust(NatStr(0 - n), 2, "0")
                ELSE RJust(NatStr(n), 3, "0")

\* s[a:b] for 0 <= a, 0 <= b
Slice(s, a, b) == SubSeq(s, a + 1, Min(b, Len(s)))

\* s[a:] for 0 <= a
SliceFrom(s, a) == SubSeq(s, a + 1, Len(s))

\* s[-k:] for k > 0
SliceLast(s, k) == SubSeq(s, Max(1, Len(s) - k + 1), Len(s))

\* the positions of character c in s
Positions(s, c) == {i \in 1..Len(s) : s[i] = c}

MinOf(S) == CHOOSE x \in S : \A y \in S : x <= y

\* s.split(c)[0]
SplitHead(s, c) == IF Positions(s, c) = {} THEN s
                   ELSE SubSeq(s, 1, MinOf(Positions(s, c)) - 1)

\* s.split(c)[1]: what lies between the first and the second c; IndexError
\* when c does not occur
SplitSecond(s, c) ==
  IF Positions(s, c) = {} THEN Fail(ERR_INDEX)
  ELSE Ok(SplitHead(SliceFrom(s, MinOf(Positions(s, c))), c))

\* the characters int() ignores around the number: the ASCII ones \t \n \x0b
\* \x0c \r and blank, and the whitespace of Unicode outside ASCII.  The four
\* ASCII separators \x1c .. \x1f are whitespace to str.isspace but not to
\* int(), which rejects them.  A character that a string cannot hold as it is,
\* is named by its Python escape
WhitespaceChars ==
  {"\t", "\n", "\\x0b", "\f", "\r", " ", "\\x85",
   "\\xa0", "\\u1680", "\\u2000", "\\u2001", "\\u2002", "\\u2003", "\\u2004",
   "\\u2005", "\\u2006", "\\u2007", "\\u2008", "\\u2009", "\\u200a", "\\u2028",
   "\\u2029", "\\u202f", "\\u205f", "\\u3000"}

\* the decimal digits outside ASCII that int() takes for 0 .. 9 (the characters
\* of Unicode 14 with a decimal value), one row per script
UnicodeDigitRows ==
  <<<<"\\u0660", "\\u0661", "\\u0662", "\\u0663", "\\u0664", "\\u0665", "\\u0666", "\\u0667", "\\u0668", "\\u0669">>,
    <<"\\u06f0", "\\u06f1", "\\u06f2", "\\u06f3", "\\u06f4", "\\u06f5", "\\u06f6", "\\u06f7", "\\u06f8", "\\u06f9">>,
    <<"\\u07c0", "\\u07c1", "\\u07c2", "\\u07c3", "\\u07c4", "\\u07c5", "\\u07c6", "\\u07c7", "\\u07c8", "\\u07c9">>,
    <<"\\u0966", "\\u0967", "\\u0968", "\\u0969", "\\u096a", "\\u096b", "\\u096c", "\\u096d", "\\u096e", "\\u096f">>,
    <<"\\u09e6", "\\u09e7", "\\u09e8", "\\u09e9", "\\u09ea", "\\u09eb", "\\u09ec", "\\u09ed", "\\u09ee", "\\u09ef">>,
    <<"\\u0a66", "\\u0a67", "\\u0a68", "\\u0a69", "\\u0a6a", "\\u0a6b", "\\u0a6c", "\\u0a6d", "\\u0a6e", "\\u0a6f">>,
    <<"\\u0ae6", "\\u0ae7", "\\u0ae8", "\\u0ae9", "\\u0aea", "\\u0aeb", "\\u0aec", "\\u0aed", "\\u0aee", "\\u0aef">>,
    <<"\\u0b66", "\\u0b67", "\\u0b68", "\\u0b69", "\\u0b6a", "\\u0b6b", "\\u0b6c", "\\u0b6d", "\\u0b6e", "\\u0b6f">>,
    <<"\\u0be6", "\\u0be7", "\\u0be8", "\\u0be9", "\\u0bea", "\\u0beb", "\\u0bec", "\\u0bed", "\\u0bee", "\\u0bef">>,
    <<"\\u0c66", "\\u0c67", "\\u0c68", "\\u0c69", "\\u0c6a", "\\u0c6b", "\\u0c6c", "\\u0c6d", "\\u0c6e", "\\u0c6f">>,
    <<"\\u0ce6", "\\u0ce7", "\\u0ce8", "\\u0ce9", "\\u0cea", "\\u0ceb", "\\u0cec", "\\u0ced", "\\u0cee", "\\u0cef">>,
    <<"\\u0d66", "\\u0d67", "\\u0d68", "\\u0d69", "\\u0d6a", "\\u0d6b", "\\u0d6c", "\\u0d6d", "\\u0d6e", "\\u0d6f">>,
    <<"\\u0de6", "\\u0de7", "\\u0de8", "\\u0de9", "\\u0dea", "\\u0deb", "\\u0dec", "\\u0ded", "\\u0dee", "\\u0def">>,
    <<"\\u0e50", "\\u0e51", "\\u0e52", "\\u0e53", "\\u0e54", "\\u0e55", "\\u0e56", "\\u0e57", "\\u0e58", "\\u0e59">>,
    <<"\\u0ed0", "\\u0ed1", "\\u0ed2", "\\u0ed3", "\\u0ed4", "\\u0ed5", "\\u0ed6", "\\u0ed7", "\\u0ed8", "\\u0ed9">>,
    <<"\\u0f20", "\\u0f21", "\\u0f22", "\\u0f23", "\\u0f24", "\\u0f25", "\\u0f26", "\\u0f27", "\\u0f28", "\\u0f29">>,
    <<"\\u1040", "\\u1041", "\\u1042", "\\u1043", "\\u1044", "\\u1045", "\\u1046", "\\u1047", "\\u1048", "\\u1049">>,
    <<"\\u1090", "\\u1091", "\\u1092", "\\u1093", "\\u1094", "\\u1095", "\\u1096", "\\u1097", "\\u1098", "\\u1099">>,
    <<"\\u17e0", "\\u17e1", "\\u17e2", "\\u17e3", "\\u17e4", "\\u17e5", "\\u17e6", "\\u17e7", "\\u17e8", "\\u17e9">>,
    <<"\\u1810", "\\u1811", "\\u1812", "\\u1813", "\\u1814", "\\u1815", "\\u1816", "\\u1817", "\\u1818", "\\u1819">>,
    <<"\\u1946", "\\u1947", "\\u1948", "\\u1949", "\\u194a", "\\u194b", "\\u194c", "\\u194d", "\\u194e", "\\u194f">>,
    <<"\\u19d0", "\\u19d1", "\\u19d2", "\\u19d3", "\\u19d4", "\\u19d5", "\\u19d6", "\\u19d7", "\\u19d8", "\\u19d9">>,
    <<"\\u1a80", "\\u1a81", "\\u1a82", "\\u1a83", "\\u1a84", "\\u1a85", "\\u1a86", "\\u1a87", "\\u1a88", "\\u1a89">>,
    <<"\\u1a90", "\\u1a91", "\\u1a92", "\\u1a93", "\\u1a94", "\\u1a95", "\\u1a96", "\\u1a97", "\\u1a98", "\\u1a99">>,
    <<"\\u1b50", "\\u1b51", "\\u1b52", "\\u1b53", "\\u1b54", "\\u1b55", "\\u1b56", "\\u1b57", "\\u1b58", "\\u1b59">>,
    <<"\\u1bb0", "\\u1bb1", "\\u1bb2", "\\u1bb3", "\\u1bb4", "\\u1bb5", "\\u1bb6", "\\u1bb7", "\\u1bb8", "\\u1bb9">>,
    <<"\\u1c40", "\\u1c41", "\\u1c42", "\\u1c43", "\\u1c44", "\\u1c45", "\\u1c46", "\\u1c47", "\\u1c48", "\\u1c49">>,
    <<"\\u1c50", "\\u1c51", "\\u1c52", "\\u1c53", "\\u1c54", "\\u1c55", "\\u1c56", "\\u1c57", "\\u1c58", "\\u1c59">>,
    <<"\\ua620", "\\ua621", "\\ua622", "\\ua623", "\\ua624", "\\ua625", "\\ua626", "\\ua627", "\\ua628", "\\ua629">>,
    <<"\\ua8d0", "\\ua8d1", "\\ua8d2", "\\ua8d3", "\\ua8d4", "\\ua8d5", "\\ua8d6", "\\ua8d7", "\\ua8d8", "\\ua8d9">>,
    <<"\\ua900", "\\ua901", "\\ua902", "\\ua903", "\\ua904", "\\ua905", "\\ua906", "\\ua907", "\\ua908", "\\ua909">>,
    <<"\\ua9d0", "\\ua9d1", "\\ua9d2", "\\ua9d3", "\\ua9d4", "\\ua9d5", "\\ua9d6", "\\ua9d7", "\\ua9d8", "\\ua9d9">>,
    <<"\\ua9f0", "\\ua9f1", "\\ua9f2", "\\ua9f3", "\\ua9f4", "\\ua9f5", "\\ua9f6", "\\ua9f7", "\\ua9f8", "\\ua9f9">>,
    <<"\\uaa50", "\\uaa51", "\\uaa52", "\\uaa53", "\\uaa54", "\\uaa55", "\\uaa56", "\\uaa57", "\\uaa58", "\\uaa59">>,
    <<"\\uabf0", "\\uabf1", "\\uabf2", "\\uabf3", "\\uabf4", "\\uabf5", "\\uabf6", "\\uabf7", "\\uabf8", "\\uabf9">>,
    <<"\\uff10", "\\uff11", "\\uff12", "\\uff13", "\\uff14", "\\uff15", "\\uff16", "\\uff17", "\\uff18", "\\uff19">>,
    <<"\\U000104a0", "\\U000104a1", "\\U000104a2", "\\U000104a3", "\\U000104a4", "\\U000104a5", "\\U000104a6", "\\U000104a7", "\\U000104a8", "\\U000104a9">>,
    <<"\\U00010d30", "\\U00010d31", "\\U00010d32", "\\U00010d33", "\\U00010d34", "\\U00010d35", "\\U00010d36", "\\U00010d37", "\\U00010d38", "\\U00010d39">>,
    <<"\\U00011066", "\\U00011067", "\\U00011068", "\\U00011069", "\\U0001106a", "\\U0001106b", "\\U0001106c", "\\U0001106d", "\\U0001106e", "\\U0001106f">>,
    <<"\\U000110f0", "\\U000110f1", "\\U000110f2", "\\U000110f3", "\\U000110f4", "\\U000110f5", "\\U000110f6", "\\U000110f7", "\\U000110f8", "\\U000110f9">>,
    <<"\\U00011136", "\\U00011137", "\\U00011138", "\\U00011139", "\\U0001113a", "\\U0001113b", "\\U0001113c", "\\U0001113d", "\\U0001113e", "\\U0001113f">>,
    <<"\\U000111d0", "\\U000111d1", "\\U000111d2", "\\U000111d3", "\\U000111d4", "\\U000111d5", "\\U000111d6", "\\U000111d7", "\\U000111d8", "\\U000111d9">>,
    <<"\\U000112f0", "\\U000112f1", "\\U000112f2", "\\U000112f3", "\\U000112f4", "\\U000112f5", "\\U000112f6", "\\U000112f7", "\\U000112f8", "\\U000112f9">>,
    <<"\\U00011450", "\\U00011451", "\\U00011452", "\\U00011453", "\\U00011454", "\\U00011455", "\\U00011456", "\\U00011457", "\\U00011458", "\\U00011459">>,
    <<"\\U000114d0", "\\U000114d1", "\\U000114d2", "\\U000114d3", "\\U000114d4", "\\U000114d5", "\\U000114d6", "\\U000114d7", "\\U000114d8", "\\U000114d9">>,
    <<"\\U00011650", "\\U00011651", "\\U00011652", "\\U00011653", "\\U00011654", "\\U00011655", "\\U00011656", "\\U00011657", "\\U00011658", "\\U00011659">>,
    <<"\\U000116c0", "\\U000116c1", "\\U000116c2", "\\U000116c3", "\\U000116c4", "\\U000116c5", "\\U000116c6", "\\U000116c7", "\\U000116c8", "\\U000116c9">>,
    <<"\\U00011730", "\\U00011731", "\\U00011732", "\\U00011733", "\\U00011734", "\\U00011735", "\\U00011736", "\\U00011737", "\\U00011738", "\\U00011739">>,
    <<"\\U000118e0", "\\U000118e1", "\\U000118e2", "\\U000118e3", "\\U000118e4", "\\U000118e5", "\\U000118e6", "\\U000118e7", "\\U000118e8", "\\U000118e9">>,
    <<"\\U00011950", "\\U00011951", "\\U00011952", "\\U00011953", "\\U00011954", "\\U00011955", "\\U00011956", "\\U00011957", "\\U00011958", "\\U00011959">>,
    <<"\\U00011c50", "\\U00011c51", "\\U00011c52", "\\U00011c53", "\\U00011c54", "\\U00011c55", "\\U00011c56", "\\U00011c57", "\\U00011c58", "\\U00011c59">>,
    <<"\\U00011d50", "\\U00011d51", "\\U00011d52", "\\U00011d53", "\\U00011d54", "\\U00011d55", "\\U00011d56", "\\U00011d57", "\\U00011d58", "\\U00011d59">>,
    <<"\\U00011da0", "\\U00011da1", "\\U00011da2", "\\U00011da3", "\\U00011da4", "\\U00011da5", "\\U00011da6", "\\U00011da7", "\\U00011da8", "\\U00011da9">>,
    <<"\\U00016a60", "\\U00016a61", "\\U00016a62", "\\U00016a63", "\\U00016a64", "\\U00016a65", "\\U00016a66", "\\U00016a67", "\\U00016a68", "\\U00016a69">>,
    <<"\\U00016ac0", "\\U00016ac1", "\\U00016ac2", "\\U00016ac3", "\\U00016ac4", "\\U00016ac5", "\\U00016ac6", "\\U00016ac7", "\\U00016ac8", "\\U00016ac9">>,
    <<"\\U00016b50", "\\U00016b51", "\\U00016b52", "\\U00016b53", "\\U00016b54", "\\U00016b55", "\\U00016b56", "\\U00016b57", "\\U00016b58", "\\U00016b59">>,
    <<"\\U0001d7ce", "\\U0001d7cf", "\\U0001d7d0", "\\U0001d7d1", "\\U0001d7d2", "\\U0001d7d3", "\\U0001d7d4", "\\U0001d7d5", "\\U0001d7d6", "\\U0001d7d7">>,
    <<"\\U0001d7d8", "\\U0001d7d9", "\\U0001d7da", "\\U0001d7db", "\\U0001d7dc", "\\U0001d7dd", "\\U0001d7de", "\\U0001d7df", "\\U0001d7e0", "\\U0001d7e1">>,
    <<"\\U0001d7e2", "\\U0001d7e3", "\\U0001d7e4", "\\U0001d7e5", "\\U0001d7e6", "\\U0001d7e7", "\\U0001d7e8", "\\U0001d7e9", "\\U0001d7ea", "\\U0001d7eb">>,
    <<"\\U0001d7ec", "\\U0001d7ed", "\\U0001d7ee", "\\U0001d7ef", "\\U0001d7f0", "\\U0001d7f1", "\\U0001d7f2", "\\U0001d7f3", "\\U0001d7f4", "\\U0001d7f5">>,
    <<"\\U0001d7f6", "\\U0001d7f7", "\\U0001d7f8", "\\U0001d7f9", "\\U0001d7fa", "\\U0001d7fb", "\\U0001d7fc", "\\U0001d7fd", "\\U0001d7fe", "\\U0001d7ff">>,
    <<"\\U0001e140", "\\U0001e141", "\\U0001e142", "\\U0001e143", "\\U0001e144", "\\U0001e145", "\\U0001e146", "\\U0001e147", "\\U0001e148", "\\U0001e149">>,
    <<"\\U0001e2f0", "\\U0001e2f1", "\\U0001e2f2", "\\U0001e2f3", "\\U0001e2f4", "\\U0001e2f5", "\\U0001e2f6", "\\U0001e2f7", "\\U0001e2f8", "\\U0001e2f9">>,
    <<"\\U0001e950", "\\U0001e951", "\\U0001e952", "\\U0001e953", "\\U0001e954", "\\U0001e955", "\\U0001e956", "\\U0001e957", "\\U0001e958", "\\U0001e959">>,
    <<"\\U0001fbf0", "\\U0001fbf1", "\\U0001fbf2", "\\U0001fbf3", "\\U0001fbf4", "\\U0001fbf5", "\\U0001fbf6", "\\U0001fbf7", "\\U0001fbf8", "\\U0001fbf9">>>>

UnicodeDigits ==
  {UnicodeDigitRows[r][k] : r \in DOMAIN UnicodeDigitRows, k \in 1..10}

IsIntDigit(c) == IsDigit(c) \/ c \in UnicodeDigits

IntDigitVal(c) ==
  IF IsDigit(c) THEN DigitVal(c)
  ELSE (CHOOSE k \in 1..10 : \E r \in DOMAIN UnicodeDigitRows :
                               UnicodeDigitRows[r][k] = c) - 1

\* the string without the whitespace int() ignores in front / behind
RECURSIVE LStrip(_)
LStrip(s) == IF s # <<>> /\ s[1] \in WhitespaceChars THEN LStrip(Tail(s)) ELSE s

RECURSIVE RStrip(_)
RStrip(s) == IF s # <<>> /\ s[Len(s)] \in WhitespaceChars
             THEN RStrip(SubSeq(s, 1, Len(s) - 1)) ELSE s

RECURSIVE DigitsVal(_)
DigitsVal(s) == IF s = <<>> THEN 0
                ELSE IF s[Len(s)] = "_" THEN DigitsVal(SubSeq(s, 1, Len(s) - 1))
                ELSE DigitsVal(SubSeq(s, 1, Len(s) - 1)) * 10 + IntDigitVal(s[Len(s)])

\* int(s) of a str: whitespace around, an optional sign, decimal digits that
\* single underscores may separate; anything else raises ValueError
IsSigned(t) == t # <<>> /\ t[1] \in {"+", "-"}

IsIntBody(body) ==
  /\ body # <<>>
  /\ \A i \in 1..Len(body) : IsIntDigit(body[i]) \/ body[i] = "_"
  /\ IsIntDigit(body[1]) /\ IsIntDigit(body[Len(body)])
  /\ \A i \in 1..(Len(body) - 1) : ~(body[i] = "_" /\ body[i + 1] = "_")

ParseStripped(t) ==
  IF IsSigned(t)
  THEN IF IsIntBody(Tail(t))
       THEN Ok(IF t[1] = "-" THEN 0 - DigitsVal(Tail(t)) ELSE DigitsVal(Tail(t)))
       ELSE Fail(ERR_INT)
  ELSE IF IsIntBody(t) THEN Ok(DigitsVal(t)) ELSE Fail(ERR_INT)

ParseInt(s) == ParseStripped(RStrip(LStrip(s)))

\* str(sampling / 1000.0) for 0 <= sampling < 10^16: the integer part, a point
\* and the shortest fraction (at least one digit)
RECURSIVE DropTrailingZeros(_)
DropTrailingZeros(s) == IF Len(s) > 1 /\ s[Len(s)] = "0"
                        THEN DropTrailingZeros(SubSeq(s, 1, Len(s) - 1)) ELSE s

FloatStrOfThousandth(n) ==
  NatStr(n \div 1000) \o <<".">> \o DropTrailingZeros(RJust(NatStr(n % 1000), 3, "0"))

(***************************************************************************)
(* Static attributes of Equi7Grid                                          *)
(***************************************************************************)
T6 == <<"T", "6">>

T3 == <<"T", "3">>

T1 == <<"T", "1">>

static_tilecodes == {T6, T3, T1}

static_sampling ==
  {6000, 3000, 1000, 800, 750, 600, 500, 400, 300, 250, 200, 150, 125, 100, 96, 80,
   75, 64, 60, 50, 48, 40, 32, 30, 25, 24, 20, 16, 10, 8, 5, 4, 2, 1}

static_subgrid_ids ==
  {<<"A", "F">>, <<"A", "N">>, <<"A", "S">>, <<"E", "U">>, <<"N", "A">>,
   <<"O", "C">>, <<"S", "A">>}

(***************************************************************************)
(* Equi7Grid.encode_sampling / decode_sampling                             *)
(***************************************************************************)
\* "".join((km[0], 'K', km[2])) of km = str(sampling / 1000.0)
KmToken(km) == <<km[1], "K", km[3]>>

encode_sampling(sampling, tile_names_in_m) ==
  IF tile_names_in_m THEN RJust(Str(sampling), 3, "0")
  ELSE IF sampling >= 1000 THEN KmToken(FloatStrOfThousandth(sampling))
  ELSE RJust(Str(sampling), 3, "0")

\* a decoder that reads the digit after 'K' as tens of metres
decode_sampling_tens(sampling_str, tile_names_in_m) ==
  IF tile_names_in_m THEN ParseInt(sampling_str)
  ELSE IF Len(sampling_str) # 3 THEN Fail(ERR_RESOLUTION)
  ELSE IF sampling_str[2] = "K"
       THEN Then(ParseInt(<<sampling_str[1]>>), LAMBDA km :
              Then(ParseInt(<<sampling_str[3]>>), LAMBDA hm :
                Ok(km * 1000 + hm * 10)))
       ELSE ParseInt(sampling_str)

decode_sampling(sampling_str, tile_names_in_m) ==
  IF tile_names_in_m THEN ParseInt(sampling_str)
  ELSE IF Len(sampling_str) # 3 THEN Fail(ERR_RESOLUTION)
  ELSE IF sampling_str[2] = "K"
       THEN Then(ParseInt(<<sampling_str[1]>>), LAMBDA km :
              Then(ParseInt(<<sampling_str[3]>>), LAMBDA hm :
                Ok(km * 1000 + hm * 100)))
       ELSE ParseInt(sampling_str)

(***************************************************************************)
(* Equi7Grid.get_tiletype / get_tilesize                                   *)
(***************************************************************************)
\* a resolver whose T6 range ends before 6000
get_tiletype_below_6000(sampling) ==
  IF sampling \in 64..5999 /\ 600000 % sampling = 0 THEN Ok(T6)
  ELSE IF sampling \in 20..60 /\ 300000 % sampling = 0 THEN Ok(T3)
  ELSE IF sampling \in 1..16 /\ 100000 % sampling = 0 THEN Ok(T1)
  ELSE Fail(ERR_TILETYPE)

get_tiletype(sampling) ==
  IF sampling \in 64..6000 /\ 600000 % sampling = 0 THEN Ok(T6)
  ELSE IF sampling \in 20..60 /\ 300000 % sampling = 0 THEN Ok(T3)
  ELSE IF sampling \in 1..16 /\ 100000 % sampling = 0 THEN Ok(T1)
  ELSE Fail(ERR_TILETYPE)

TileSizeOf(tilecode) == CASE tilecode = T6 -> 600000
                          [] tilecode = T3 -> 300000
                          [] tilecode = T1 -> 100000

\* a resolver whose y extent shrinks with the sampling
get_tilesize_by_sampling(sampling) ==
  Then(get_tiletype(sampling), LAMBDA tilecode :
    Ok(<<TileSizeOf(tilecode),
         IF sampling < 100 THEN 100000 ELSE TileSizeOf(tilecode)>>))

get_tilesize(sampling) ==
  Then(get_tiletype(sampling), LAMBDA tilecode :
    Ok(<<TileSizeOf(tilecode), TileSizeOf(tilecode)>>))

(***************************************************************************)
(* Construction: Equi7Grid.__init__, and the core each subgrid's tiling   *)
(* system gets in Equi7Subgrid.__init__ (a copy of the grid's core with    *)
(* the subgrid's tag)                                                      *)
(***************************************************************************)
NoGrid == [built |-> FALSE, sampling |-> 0, tile_names_in_m |-> FALSE,
           tiletype |-> <<>>, tile_xsize_m |-> 0, tile_ysize_m |-> 0]

\* a constructor that takes every sampling the resolver finds a class for
Equi7Grid_any_resolvable(sampling, tile_names_in_m) ==
  Then(get_tiletype(sampling), LAMBDA tiletype :
    Then(get_tilesize(sampling), LAMBDA size :
      Ok([built |-> TRUE, sampling |-> sampling,
          tile_names_in_m |-> tile_names_in_m, tiletype |-> tiletype,
          tile_xsize_m |-> size[1], tile_ysize_m |-> size[2]])))

Equi7Grid(sampling, tile_names_in_m) ==
  IF sampling \notin static_sampling THEN Fail(ERR_SAMPLING)
  ELSE Then(get_tiletype(sampling), LAMBDA tiletype :
         Then(get_tilesize(sampling), LAMBDA size :
           Ok([built |-> TRUE, sampling |-> sampling,
               tile_names_in_m |-> tile_names_in_m, tiletype |-> tiletype,
               tile_xsize_m |-> size[1], tile_ysize_m |-> size[2]])))

Equi7Subgrid(g, continent) ==
  [tag |-> continent, sampling |-> g.sampling, tile_names_in_m |-> g.tile_names_in_m,
   tiletype |-> g.tiletype, tile_xsize_m |-> g.tile_xsize_m,
   tile_ysize_m |-> g.tile_ysize_m]

(***************************************************************************)
(* Equi7TilingSystem: the tile name codec                                  *)
(***************************************************************************)
TileTuple(subgrid_id, sampling, tile_size_m, llx, lly, tilecode) ==
  [subgrid_id |-> subgrid_id, sampling |-> sampling, tile_size_m |-> tile_size_m,
   llx |-> llx, lly |-> lly, tilecode |-> tilecode]

\* a short-form decoder that rounds an unaligned corner down to the grid
decode_tilename_short_rounding(core, tilename) ==
  Then(ParseInt(SliceLast(tilename, 1)), LAMBDA size :
    IF size * 100000 # core.tile_xsize_m THEN Fail(MSG1)
    ELSE Then(ParseInt(Slice(tilename, 1, 4)), LAMBDA llx :
      Then(ParseInt(Slice(tilename, 5, 8)), LAMBDA lly :
        IF SliceLast(tilename, 2) # core.tiletype THEN Fail(MSG1)
        ELSE Ok(TileTuple(core.tag, core.sampling, size * 100000,
                          (llx - (llx % (core.tile_ysize_m \div 100000))) * 100000,
                          (lly - (lly % (core.tile_ysize_m \div 100000))) * 100000,
                          SliceLast(tilename, 2))))))

\* decode_tilename, the branch len(tilename) == 10
decode_tilename_short(core, tilename) ==
  Then(ParseInt(SliceLast(tilename, 1)), LAMBDA size :
    IF size * 100000 # core.tile_xsize_m THEN Fail(MSG1)
    ELSE Then(ParseInt(Slice(tilename, 1, 4)), LAMBDA llx :
      IF llx % (core.tile_ysize_m \div 100000) # 0 THEN Fail(MSG2)
      ELSE Then(ParseInt(Slice(tilename, 5, 8)), LAMBDA lly :
        IF lly % (core.tile_ysize_m \div 100000) # 0 THEN Fail(MSG2)
        ELSE IF SliceLast(tilename, 2) # core.tiletype THEN Fail(MSG1)
        ELSE Ok(TileTuple(core.tag, core.sampling, size * 100000,
                          llx * 100000, lly * 100000, SliceLast(tilename, 2))))))

\* a long-form decoder that does not compare the class token
decode_tilename_long_any_class(core, tilename) ==
  IF Slice(tilename, 0, 2) # core.tag THEN Fail(MSG1)
  ELSE Then(decode_sampling(SplitHead(SliceFrom(tilename, 2), "M"),
                            core.tile_names_in_m), LAMBDA sampling :
    Then(SplitSecond(tilename, "_"), LAMBDA tilename_remaining :
      IF sampling # core.sampling THEN Fail(MSG1)
      ELSE IF tilename_remaining = <<>> THEN Fail(ERR_INDEX)
      ELSE Then(ParseInt(SliceLast(tilename_remaining, 1)), LAMBDA size :
        IF size * 100000 # core.tile_xsize_m THEN Fail(MSG1)
        ELSE Then(ParseInt(Slice(tilename_remaining, 1, 4)), LAMBDA llx :
          IF llx % (core.tile_ysize_m \div 100000) # 0 THEN Fail(MSG2)
          ELSE Then(ParseInt(Slice(tilename_remaining, 5, 8)), LAMBDA lly :
            IF lly % (core.tile_ysize_m \div 100000) # 0 THEN Fail(MSG2)
            ELSE Ok(TileTuple(Slice(tilename, 0, 2), sampling, size * 100000,
                              llx * 100000, lly * 100000,
                              SliceLast(tilename_remaining, 2))))))))

\* decode_tilename, the branch of every other length
decode_tilename_long(core, tilename) ==
  IF Slice(tilename, 0, 2) # core.tag THEN Fail(MSG1)
  ELSE Then(decode_sampling(SplitHead(SliceFrom(tilename, 2), "M"),
                            core.tile_names_in_m), LAMBDA sampling :
    Then(SplitSecond(tilename, "_"), LAMBDA tilename_remaining :
      IF sampling # core.sampling THEN Fail(MSG1)
      ELSE IF tilename_remaining = <<>> THEN Fail(ERR_INDEX)
      ELSE Then(ParseInt(SliceLast(tilename_remaining, 1)), LAMBDA size :
        IF size * 100000 # core.tile_xsize_m THEN Fail(MSG1)
        ELSE Then(ParseInt(Slice(tilename_remaining, 1, 4)), LAMBDA llx :
          IF llx % (core.tile_ysize_m \div 100000) # 0 THEN Fail(MSG2)
          ELSE Then(ParseInt(Slice(tilename_remaining, 5, 8)), LAMBDA lly :
            IF lly % (core.tile_ysize_m \div 100000) # 0 THEN Fail(MSG2)
            ELSE IF SliceLast(tilename_remaining, 2) # core.tiletype THEN Fail(MSG1)
            ELSE Ok(TileTuple(Slice(tilename, 0, 2), sampling, size * 100000,
                              llx * 100000, lly * 100000,
                              SliceLast(tilename_remaining, 2))))))))

decode_tilename(core, tilename) ==
  IF Len(tilename) = 10 THEN decode_tilename_short(core, tilename)
  ELSE decode_tilename_long(core, tilename)

\* raises what decode_tilename raises, else True
check_tilename(core, tilename) ==
  Then(decode_tilename(core, tilename), LAMBDA decoded : Ok(TRUE))

tilename2short(core, tilename) ==
  Then(check_tilename(core, tilename), LAMBDA check :
    IF Len(tilename) = 17 THEN Ok(SliceFrom(tilename, 7)) ELSE Ok(tilename))

tilename2lowerleft(core, tilename) ==
  Then(decode_tilename(core, tilename), LAMBDA decoded :
    Ok(<<decoded.llx, decoded.lly>>))

\* a name format with the north field before the east field
LongName_north_first(core, llx, lly, sampling, tilecode) ==
  core.tag \o encode_sampling(sampling, core.tile_names_in_m) \o <<"M", "_", "E">>
    \o Format03d(lly \div 100000) \o <<"N">> \o Format03d(llx \div 100000) \o tilecode

\* the long form that encode_tilename formats first
LongName(core, llx, lly, sampling, tilecode) ==
  core.tag \o encode_sampling(sampling, core.tile_names_in_m) \o <<"M", "_", "E">>
    \o Format03d(llx \div 100000) \o <<"N">> \o Format03d(lly \div 100000) \o tilecode

encode_tilename(core, llx, lly, sampling, tilecode, shortform) ==
  IF shortform THEN tilename2short(core, LongName(core, llx, lly, sampling, tilecode))
  ELSE Ok(LongName(core, llx, lly, sampling, tilecode))

\* _encode_tilename: with the tiling system's own sampling and tile type
encode_own_tilename(core, llx, lly, shortform) ==
  encode_tilename(core, llx, lly, core.sampling, core.tiletype, shortform)

(***************************************************************************)
(* Land coverage: Equi7Grid._static_data[tag]["coverland"][tiletype], the  *)
(* precomputed sets of short tile names shipped in data/equi7grid.dat.     *)
(* The data file is not part of the sources; a checkerboard of the first   *)
(* tiles of each subgrid stands for it.                                    *)
(***************************************************************************)
MaxLandIdx == 2

ShortBlock(east, north, tilecode) ==
  <<"E">> \o Format03d(east) \o <<"N">> \o Format03d(north) \o tilecode

LandCells(shift) ==
  {p \in (0..MaxLandIdx) \X (0..MaxLandIdx) : (p[1] + p[2] + shift) % 2 = 0}

coverland(tag, tilecode) ==
  {ShortBlock(p[1] * (TileSizeOf(tilecode) \div 100000),
              p[2] * (TileSizeOf(tilecode) \div 100000), tilecode) :
     p \in LandCells(IF tag[1] = "A" THEN 0 ELSE 1)}

list_tiles_covering_land(core) == coverland(core.tag, core.tiletype)

check_tile_covers_land(core, tilename) ==
  Then(check_tilename(core, tilename), LAMBDA check :
    Then(tilename2short(core, tilename), LAMBDA short :
      Ok(short \in list_tiles_covering_land(core))))

(***************************************************************************)
(* Tiles                                                                   *)
(***************************************************************************)
\* pytileproj TilingSystem.round_xy2lowerleft
round_xy2lowerleft(core, x, y) ==
  <<(x \div core.tile_xsize_m) * core.tile_xsize_m,
    (y \div core.tile_ysize_m) * core.tile_ysize_m>>

Equi7Tile(core, name, xll, yll, covers_land) ==
  [core |-> core, name |-> name, llx |-> xll, lly |-> yll, covers_land |-> covers_land]

\* Equi7Tile.shortname
shortname(tile) == SliceFrom(tile.name, 7)

\* the orders in which list(set(...)) may enumerate the elements of S
Enumerations(S) ==
  {f \in [1..Cardinality(S) -> S] : \A i, j \in 1..Cardinality(S) : f[i] = f[j] => i = j}

\* a loop body that hands the corner to the tile with x and y exchanged
TileOfCorner_exchanged(core, corner) ==
  Then(encode_own_tilename(core, corner[1], corner[2], FALSE), LAMBDA name :
    Then(check_tile_covers_land(core, name), LAMBDA covers_land :
      Ok(Equi7Tile(core, name, corner[2], corner[1], covers_land))))

\* one pass of the loop of create_tile: the tile of one distinct corner
TileOfCorner(core, corner) ==
  Then(encode_own_tilename(core, corner[1], corner[2], FALSE), LAMBDA name :
    Then(check_tile_covers_land(core, name), LAMBDA covers_land :
      Ok(Equi7Tile(core, name, corner[1], corner[2], covers_land))))

\* a loop that numbers the tiles in the order of the input
Collected_in_input_order(made, expanded, unique_x_y) ==
  IF \E i \in DOMAIN made : ~made[i].ok
  THEN made[MinOf({i \in DOMAIN made : ~made[i].ok})]
  ELSE Ok([tiles |-> [i \in DOMAIN made |-> made[i].val],
           tiles_idx |-> [k \in DOMAIN expanded |-> Min(k, Len(unique_x_y)) - 1]])

\* what the loop leaves: the first exception, or tiles[i_tile] and, for each
\* input position, the i_tile (counted from 0) of its corner
Collected(made, expanded, unique_x_y) ==
  IF \E i \in DOMAIN made : ~made[i].ok
  THEN made[MinOf({i \in DOMAIN made : ~made[i].ok})]
  ELSE Ok([tiles |-> [i \in DOMAIN made |-> made[i].val],
           tiles_idx |-> [k \in DOMAIN expanded |->
               (CHOOSE i \in DOMAIN unique_x_y : unique_x_y[i] = expanded[k]) - 1]])

\* the loop of create_tile over unique_x_y, the distinct corners of the
\* sequence expanded
TilesOfCorners(core, expanded, unique_x_y) ==
  Collected([i \in DOMAIN unique_x_y |-> TileOfCorner(core, unique_x_y[i])],
            expanded, unique_x_y)

\* create_tile(x=xs, y=ys) of sequences; unique_x_y is the order in which the
\* set of corners is enumerated
create_tiles(core, xs, ys, unique_x_y) ==
  TilesOfCorners(core,
                 [k \in DOMAIN xs |-> round_xy2lowerleft(core, xs[k], ys[k])],
                 unique_x_y)

CornersOf(core, xs, ys) ==
  {round_xy2lowerleft(core, xs[k], ys[k]) : k \in DOMAIN xs}

\* create_tile(x=x, y=y) of scalars: the scalars are wrapped, tiles[0] returned
create_tile_xy(core, x, y) ==
  Then(create_tiles(core, <<x>>, <<y>>, <<round_xy2lowerleft(core, x, y)>>),
       LAMBDA made : Ok(made.tiles[1]))

\* create_tile(name=name)
create_tile_name(core, name) ==
  Then(tilename2lowerleft(core, name), LAMBDA ll :
    Then(TilesOfCorners(core, <<ll>>, <<ll>>), LAMBDA made : Ok(made.tiles[1])))

point2tilename(core, x, y, shortform) ==
  encode_own_tilename(core, round_xy2lowerleft(core, x, y)[1],
                      round_xy2lowerleft(core, x, y)[2], shortform)

(***************************************************************************)
(* Pixel indices                                                           *)
(***************************************************************************)
\* pytileproj Tile.geotransform / geotransform_lowerleft
geotransform(tile) ==
  <<tile.llx, tile.core.sampling, 0, tile.lly + tile.core.tile_ysize_m, 0,
    0 - tile.core.sampling>>

geotransform_lowerleft(tile) ==
  <<tile.llx, tile.core.sampling, 0, tile.lly, 0, tile.core.sampling>>

\* np.floor(a / b), b # 0
FloorDiv(a, b) == IF b > 0 THEN a \div b ELSE (0 - a) \div (0 - b)

\* a / b cut towards zero
TruncDiv(a, b) ==
  IF b > 0 THEN (IF a >= 0 THEN a \div b ELSE 0 - ((0 - a) \div b))
  ELSE (IF a <= 0 THEN (0 - a) \div (0 - b) ELSE 0 - (a \div (0 - b)))

\* pixel formulas that cut the quotient towards zero instead of flooring it
PixelOf_truncated(gt, x, y) ==
  <<TruncDiv(0 - (gt[3] * (gt[4] - y) + gt[6] * (x - gt[1])),
             gt[3] * gt[5] - gt[2] * gt[6]),
    TruncDiv(0 - (gt[2] * (y - gt[4]) - gt[5] * (x - gt[1])),
             gt[3] * gt[5] - gt[2] * gt[6])>>

\* the formulas of Equi7Tile.xy2ij; gt[k + 1] is the code's gt[k].  The sums
\*   gt[2]*gt[3] - gt[0]*gt[5] + gt[5]*x - gt[2]*y   and
\*   -gt[1]*gt[3] + gt[0]*gt[4] - gt[4]*x + gt[1]*y
\* are written with the common factors taken out, which keeps the products
\* small.
PixelOf(gt, x, y) ==
  <<FloorDiv(0 - (gt[3] * (gt[4] - y) + gt[6] * (x - gt[1])),
             gt[3] * gt[5] - gt[2] * gt[6]),
    FloorDiv(0 - (gt[2] * (y - gt[4]) - gt[5] * (x - gt[1])),
             gt[3] * gt[5] - gt[2] * gt[6])>>

xy2ij(tile, x, y, lowerleft) ==
  PixelOf(IF lowerleft THEN geotransform_lowerleft(tile) ELSE geotransform(tile), x, y)

(***************************************************************************)
(* Geodetic points.  A point is [within, x, y]: the subgrids whose extent  *)
(* polygon the spatial join finds it within, and its planar coordinates (in*)
(* metres) under a subgrid's projection.                                   *)
(***************************************************************************)
None == <<"None">>

NaN == <<"nan">>

\* the left join keeps a point that is within no polygon as one row with a
\* missing name; only the points with more than one row are dropped
get_subgrids_spatial_join(pts) ==
  [k \in DOMAIN pts |->
     IF Cardinality(pts[k].within) > 1 THEN None
     ELSE IF pts[k].within = {} THEN NaN
     ELSE CHOOSE t \in pts[k].within : TRUE]

\* np.where(subgrid == unique_subgrid): the positions, ascending
RECURSIVE MaskedFrom(_, _, _)
MaskedFrom(subgrid, unique_subgrid, k) ==
  IF k > Len(subgrid) THEN <<>>
  ELSE IF subgrid[k] = unique_subgrid
       THEN <<k>> \o MaskedFrom(subgrid, unique_subgrid, k + 1)
       ELSE MaskedFrom(subgrid, unique_subgrid, k + 1)

Masked(subgrid, unique_subgrid) == MaskedFrom(subgrid, unique_subgrid, 1)

PixelRecord(tile, ij) == [name |-> tile.name, i |-> ij[1], j |-> ij[2]]

PixelsOfTiles(made, x, y, lowerleft) ==
  [m \in DOMAIN x |->
     PixelRecord(made.tiles[made.tiles_idx[m] + 1],
                 xy2ij(made.tiles[made.tiles_idx[m] + 1], x[m], y[m], lowerleft))]

PixelsOfXY(core, x, y, lowerleft, rank) ==
  Then(create_tiles(core, x, y, SelectSeq(rank, LAMBDA c : c \in CornersOf(core, x, y))),
       LAMBDA made : Ok(PixelsOfTiles(made, x, y, lowerleft)))

\* the body of the loop of lonlat2ij_in_tile for one subgrid: tile name and
\* pixel indices of the points at positions idx
SubgridPixels(g, pts, idx, unique_subgrid, lowerleft, rank) ==
  PixelsOfXY(Equi7Subgrid(g, unique_subgrid),
             [m \in DOMAIN idx |-> pts[idx[m]].x],
             [m \in DOMAIN idx |-> pts[idx[m]].y], lowerleft, rank)

\* the slot of position k within the part of its subgrid
SlotOf(idx, k) == CHOOSE m \in DOMAIN idx : idx[m] = k

\* the subgrids the loop of lonlat2ij_in_tile visits: the str entries
ResolvedSubgrids(subgrid) ==
  {subgrid[k] : k \in DOMAIN subgrid} \cap static_subgrid_ids

\* the output arrays once every subgrid is done.  The loop visits the subgrids
\* in the order unique_subgrids of list(set(...)) and the first part that
\* raises ends the call; a slot left None makes astype(int) raise
Assembled(subgrid, parts, unique_subgrids) ==
  IF \E sg \in DOMAIN parts : ~parts[sg].ok
  THEN parts[unique_subgrids[MinOf({i \in DOMAIN unique_subgrids :
                                     ~parts[unique_subgrids[i]].ok})]]
  ELSE IF \E k \in DOMAIN subgrid : subgrid[k] \notin DOMAIN parts THEN Fail(ERR_TYPE)
  ELSE Ok([k \in DOMAIN subgrid |->
             parts[subgrid[k]].val[SlotOf(Masked(subgrid, subgrid[k]), k)]])

SubgridParts(g, pts, subgrid, lowerleft, rank, unique_subgrids) ==
  Assembled(subgrid,
    [sg \in ResolvedSubgrids(subgrid) |->
       SubgridPixels(g, pts, Masked(subgrid, sg), sg, lowerleft, rank)],
    unique_subgrids)

\* lonlat2ij_in_tile of sequences; rank is the order in which the sets of
\* corners are enumerated, unique_subgrids the order in which the set of
\* subgrids is
lonlat2ij_in_tile(g, pts, lowerleft, rank, unique_subgrids) ==
  SubgridParts(g, pts, get_subgrids_spatial_join(pts), lowerleft, rank,
               unique_subgrids)

(***************************************************************************)
(* Equi7TilingSystem.get_congruent_tiles_from_tilename: the family tiles   *)
(***************************************************************************)
ERR_UNBOUND == "UnboundLocalError"

\* an optional sampling argument: left at its default None, or given
NoSampling == [given |-> FALSE, val |-> 0]

Given(sampling) == [given |-> TRUE, val |-> sampling]

\* the code point of a character of a tile class token
CharOrd(c) == IF IsDigit(c) THEN 48 + DigitVal(c) ELSE 84

\* Python's a < b on strings
RECURSIVE StrLess(_, _)
StrLess(a, b) ==
  IF b = <<>> THEN FALSE
  ELSE IF a = <<>> THEN TRUE
  ELSE IF a[1] = b[1] THEN StrLess(Tail(a), Tail(b))
  ELSE CharOrd(a[1]) < CharOrd(b[1])

\* Python's a >= b on strings, as in "target_tiletype >= src_tiletype"
StrGE(a, b) == ~StrLess(a, b)

\* the sampling of the target grid ("check search input")
FamilySampling(target_sampling, target_tiletype) ==
  IF target_sampling.given THEN Ok(target_sampling.val)
  ELSE IF target_tiletype = None THEN Fail(ERR_UNBOUND)
  ELSE IF target_tiletype = T1 THEN Ok(10)
  ELSE IF target_tiletype = T3 THEN Ok(20)
  ELSE IF target_tiletype = T6 THEN Ok(500)
  ELSE Fail(MSG3)

\* the list of the names, or what the first failing encode_tilename raises
Gathered(names) ==
  IF \E k \in DOMAIN names : ~names[k].ok
  THEN names[MinOf({k \in DOMAIN names : ~names[k].ok})]
  ELSE Ok([k \in DOMAIN names |-> names[k].val])

\* a single result that keeps the corner of the source tile as it is
FamilyAround_unrounded(tcore, src, sampling, shortform) ==
  Gathered(<<encode_tilename(tcore, src.llx, src.lly, sampling, tcore.tiletype,
                             shortform)>>)

\* "for larger tiles": the one tile of the target grid at the corner of the
\* source tile rounded down
FamilyAround(tcore, src, sampling, shortform) ==
  Gathered(<<encode_tilename(tcore,
                             (src.llx \div tcore.tile_xsize_m) * tcore.tile_xsize_m,
                             (src.lly \div tcore.tile_xsize_m) * tcore.tile_xsize_m,
                             sampling, tcore.tiletype, shortform)>>)

\* a family that walks the diagonal of the source tile only
FamilyInside_diagonal(tcore, src, sampling, shortform, n) ==
  Gathered([k \in 1..(n * n) |->
              encode_tilename(tcore,
                              src.llx + ((k - 1) % n) * tcore.tile_xsize_m,
                              src.lly + ((k - 1) % n) * tcore.tile_xsize_m,
                              sampling, tcore.tiletype, shortform)])

\* "for smaller tiles": n * n names in the order of
\* itertools.product(range(n), range(n))
FamilyInside(tcore, src, sampling, shortform, n) ==
  Gathered([k \in 1..(n * n) |->
              encode_tilename(tcore,
                              src.llx + ((k - 1) \div n) * tcore.tile_xsize_m,
                              src.lly + ((k - 1) % n) * tcore.tile_xsize_m,
                              sampling, tcore.tiletype, shortform)])

FamilyTiles(tcore, src, sampling, shortform) ==
  IF StrGE(tcore.tiletype, src.tilecode)
  THEN FamilyAround(tcore, src, sampling, shortform)
  ELSE FamilyInside(tcore, src, sampling, shortform,
                    src.tile_size_m \div tcore.tile_xsize_m)

\* a family query that returns short names whenever a target class is given
get_congruent_tiles_short_by_class(core, tilename, target_sampling, target_tiletype) ==
  Then(FamilySampling(target_sampling, target_tiletype), LAMBDA sampling :
    Then(Equi7Grid(sampling, FALSE), LAMBDA target_grid :
      Then(decode_tilename(core, tilename), LAMBDA src :
        FamilyTiles(Equi7Subgrid(target_grid, core.tag), src, sampling,
                    target_tiletype # None))))

get_congruent_tiles_from_tilename(core, tilename, target_sampling, target_tiletype) ==
  Then(FamilySampling(target_sampling, target_tiletype), LAMBDA sampling :
    Then(Equi7Grid(sampling, FALSE), LAMBDA target_grid :
      Then(decode_tilename(core, tilename), LAMBDA src :
        FamilyTiles(Equi7Subgrid(target_grid, core.tag), src, sampling,
                    ~target_sampling.given))))

(***************************************************************************)
(* Inputs                                                                  *)
(***************************************************************************)
MaxResolverArg == 6100

MaxSamplingArg == 9999

NegSamplingArgs == 2

MaxCornerIdx == 2

MaxBatch == 3

MaxGeoBatch == 2

EU == <<"E", "U">>

AF == <<"A", "F">>

\* samplings handed to get_tiletype / get_tilesize
ResolverArgs == (0 - NegSamplingArgs)..MaxResolverArg

\* samplings handed to encode_sampling
SamplingArgs == 1..MaxSamplingArg

\* samplings handed to the constructor: the legal ones, and some that are not
ConstructorArgs == static_sampling \cup {0, 7, 15, 120, 1500, 7000}

\* samplings of the grids that tiles are asked from: the ends of the range of
\* each tile class, samplings whose token has four characters in metres mode,
\* and one that is not legal
TileGridArgs == {6000, 1000, 500, 64, 60, 20, 16, 1, 7}

\* sampling tokens handed to decode_sampling
SamplingTokens ==
  {encode_sampling(s, m) : s \in static_sampling \cup {1500, 1234}, m \in BOOLEAN}
    \cup {<<"5", "0">>, <<"K", "5", "0">>, <<"5", "K", "x">>, <<"0", "5", "0", "0">>,
          <<"5", "_", "0">>, <<"-", "1", "0">>, <<"\t", "5", "0">>, <<"5", "0", "\n">>,
          <<"\\u0665", "0", "0">>, <<"\\u0661", "K", "\\u0665">>,
          <<"\\x1c", "5", "0">>, <<"5", "0", "\\x1f">>}

\* east / north indices (in 100 km) of aligned corners: the first tiles, and
\* the tiles around the end of the three-digit range
FarUnits == {996, 999, 1002, 1200}

CornerUnits(core) ==
  LET tf == core.tile_xsize_m \div 100000
  IN {k * tf : k \in 0..MaxCornerIdx} \cup {u \in FarUnits : u % tf = 0}

NearUnits(core) == {u \in CornerUnits(core) : u \notin FarUnits}

CornerPairs(core) ==
  (NearUnits(core) \X NearUnits(core))
    \cup {p \in CornerUnits(core) \X CornerUnits(core) : p[1] = p[2] \/ p[1] = 0 \/ p[2] = 0}

\* the subgrids whose tiling system the tile queries are made on
TileSubgrids == {EU, AF}

\* planar coordinates (metres) of points
Coords == {0 - 600001, 0 - 1, 0, 99999, 112345, 318210, 600000, 99999999, 100000000}

PointPairs == {p \in Coords \X Coords : p[2] \in {0 - 1, 0, 318210} \/ p[1] = p[2]}

BatchPoints == {<<112345, 318210>>, <<0, 0>>, <<600000, 318210>>, <<100200000, 0>>}

BatchSeqs == UNION {[1..n -> BatchPoints] : n \in 1..MaxBatch}

OtherTag(tag) == IF tag = EU THEN AF ELSE EU

OtherSampling(sampling) == IF sampling = 10 THEN 5 ELSE 10

OtherCodes(tilecode) ==
  CASE tilecode = T6 -> <<T3, T1>> [] tilecode = T3 -> <<T6, T1>> [] tilecode = T1 -> <<T6, T3>>

\* tile names handed to the decoder: a well formed name of the grid with up
\* to two of its parts replaced
NameParts ==
  [form : {"short", "long"}, tag : 0..1, token : 0..2, sep : 0..2, mark : 0..2,
   east : 0..7, north : 0..4, code : 0..3]

Deviations(c) ==
  Cardinality({f \in {"tag", "token", "sep", "mark", "east", "north", "code"} : c[f] # 0})

NameChoices ==
  {c \in NameParts : /\ Deviations(c) <= 2
                     /\ c.form = "short" => (c.tag = 0 /\ c.token = 0 /\ c.sep = 0)}

NameOf(core, c) ==
  LET tag == IF c.tag = 0 THEN core.tag ELSE OtherTag(core.tag)
      own == encode_sampling(core.sampling, core.tile_names_in_m)
      token == CASE c.token = 0 -> own
                 [] c.token = 1 -> <<"0">> \o own
                 [] c.token = 2 -> encode_sampling(OtherSampling(core.sampling),
                                                   core.tile_names_in_m)
      sep == CASE c.sep = 0 -> <<"M", "_">>
               [] c.sep = 1 -> <<"M", "x", "_">>
               [] c.sep = 2 -> <<"M", "-">>
      e == IF c.mark = 1 THEN "X" ELSE "E"
      n == IF c.mark = 2 THEN "Y" ELSE "N"
      east == CASE c.east = 0 -> <<"0", "1", "2">>
                [] c.east = 1 -> <<"0", "1", "1">>
                [] c.east = 2 -> <<"0", "0", "3">>
                [] c.east = 3 -> <<"-", "0", "6">>
                [] c.east = 4 -> <<"0", "x", "1">>
                [] c.east = 5 -> <<"\t", "1", "2">>
                [] c.east = 6 -> <<"0", "\\u0661", "\\u0662">>
                [] c.east = 7 -> <<"\\x1c", "1", "2">>
      north == CASE c.north = 0 -> <<"0", "1", "8">>
                 [] c.north = 1 -> <<"0", "1", "3">>
                 [] c.north = 2 -> <<"0", "0", "9">>
                 [] c.north = 3 -> <<"0", "y", "8">>
                 [] c.north = 4 -> <<"1", "8", "\\xa0">>
      code == CASE c.code = 0 -> core.tiletype
                [] c.code = 1 -> OtherCodes(core.tiletype)[1]
                [] c.code = 2 -> OtherCodes(core.tiletype)[2]
                [] c.code = 3 -> <<"X", core.tiletype[2]>>
      block == <<e>> \o east \o <<n>> \o north \o code
  IN IF c.form = "short" THEN block ELSE tag \o token \o sep \o block

TileNames(core) == {NameOf(core, c) : c \in NameChoices}

FewTileNames(core) == {NameOf(core, c) : c \in {d \in NameChoices : Deviations(d) <= 1}}

\* the largest sampling of a grid whose pixels are asked for directly
MaxPixelSampling == 3000

\* planar points whose pixel is asked for: inside a tile, on its south-west
\* corner, next to its north-east corner, on the east edge of the tile before
PixelPoints ==
  {<<112345, 318210>>, <<0, 0>>, <<599999, 599999>>, <<600000, 318210>>,
   <<0 - 1, 0 - 1>>, <<299999, 300000>>, <<100000, 99999>>, <<318210, 0>>}

\* geodetic points: the polygons a point is within, and its planar coordinates
GeoPoints ==
  {[within |-> {EU}, x |-> 112345, y |-> 318210],
   [within |-> {EU}, x |-> 600000, y |-> 318210],
   [within |-> {AF}, x |-> 112345, y |-> 318210],
   [within |-> {AF}, x |-> 300000, y |-> 299999],
   [within |-> {}, x |-> 112345, y |-> 318210],
   [within |-> {EU, AF}, x |-> 300000, y |-> 299999]}

\* geodetic points far outside the range of the tile names, for which
\* create_tile raises (on a T3 grid one error in subgrid EU and another in
\* subgrid AF), and one point for which it returns
RaisingPoints ==
  {[within |-> {EU}, x |-> 0 - 1000000000, y |-> 0],
   [within |-> {AF}, x |-> 0 - 99900000, y |-> 0],
   [within |-> {AF}, x |-> 112345, y |-> 318210]}

GeoSeqs ==
  UNION {[1..n -> GeoPoints] \cup [1..n -> RaisingPoints] : n \in 1..MaxGeoBatch}

\* the subgrids that the points of pts resolve to
GeoSubgrids(pts) == ResolvedSubgrids(get_subgrids_spatial_join(pts))

\* the corners of the points of pts, under any subgrid of grid g
GeoCorners(g, pts) ==
  CornersOf(Equi7Subgrid(g, EU), [k \in 1..Len(pts) |-> pts[k].x],
            [k \in 1..Len(pts) |-> pts[k].y])

(***************************************************************************)
(* The state machine: a caller constructs a grid and calls its methods     *)
(***************************************************************************)
Init ==
  /\ grid = NoGrid
  /\ pc = "new"
  /\ op = "none"
  /\ args = <<>>
  /\ ret = Ok(<<>>)

Called(name, a, r) ==
  /\ pc' = "done"
  /\ op' = name
  /\ args' = a
  /\ ret' = r
  /\ UNCHANGED grid

Constructed(sampling, tile_names_in_m, g) ==
  /\ grid' = IF g.ok THEN g.val ELSE NoGrid
  /\ pc' = IF g.ok THEN "ready" ELSE "done"
  /\ op' = "Equi7Grid"
  /\ args' = [sampling |-> sampling, tile_names_in_m |-> tile_names_in_m]
  /\ ret' = IF g.ok THEN Ok(<<>>) ELSE g

\* the constructor, called with one of the given samplings
Construct(samplings) ==
  /\ pc = "new"
  /\ \E sampling \in samplings, tile_names_in_m \in BOOLEAN :
       Constructed(sampling, tile_names_in_m, Equi7Grid(sampling, tile_names_in_m))

GetTileType ==
  /\ pc = "new"
  /\ \E sampling \in ResolverArgs :
       Called("get_tiletype", [sampling |-> sampling], get_tiletype(sampling))

GetTileSize ==
  /\ pc = "new"
  /\ \E sampling \in ResolverArgs :
       Called("get_tilesize", [sampling |-> sampling], get_tilesize(sampling))

EncodeSampling ==
  /\ pc = "new"
  /\ \E sampling \in SamplingArgs, tile_names_in_m \in BOOLEAN :
       Called("encode_sampling",
              [sampling |-> sampling, tile_names_in_m |-> tile_names_in_m],
              Ok(encode_sampling(sampling, tile_names_in_m)))

DecodeSampling ==
  /\ pc = "new"
  /\ \E sampling_str \in SamplingTokens, tile_names_in_m \in BOOLEAN :
       Called("decode_sampling",
              [sampling_str |-> sampling_str, tile_names_in_m |-> tile_names_in_m],
              decode_sampling(sampling_str, tile_names_in_m))

EncodeTilename ==
  /\ pc = "ready"
  /\ \E tag \in static_subgrid_ids, shortform \in BOOLEAN,
        tilecode \in {grid.tiletype, OtherCodes(grid.tiletype)[1]} :
       \E c \in CornerPairs(Equi7Subgrid(grid, tag)) :
          Called("encode_tilename",
                 [tag |-> tag, llx |-> c[1] * 100000, lly |-> c[2] * 100000,
                  sampling |-> grid.sampling, tilecode |-> tilecode,
                  shortform |-> shortform],
                 encode_tilename(Equi7Subgrid(grid, tag), c[1] * 100000, c[2] * 100000,
                                 grid.sampling, tilecode, shortform))

DecodeTilename ==
  /\ pc = "ready"
  /\ \E tag \in static_subgrid_ids :
       \E tilename \in TileNames(Equi7Subgrid(grid, tag)) :
          Called("decode_tilename", [tag |-> tag, tilename |-> tilename],
                 decode_tilename(Equi7Subgrid(grid, tag), tilename))

Tilename2Short ==
  /\ pc = "ready"
  /\ \E tag \in static_subgrid_ids :
       \E tilename \in FewTileNames(Equi7Subgrid(grid, tag)) :
          Called("tilename2short", [tag |-> tag, tilename |-> tilename],
                 tilename2short(Equi7Subgrid(grid, tag), tilename))

CreateTileByName ==
  /\ pc = "ready"
  /\ \E tag \in TileSubgrids :
       \E name \in FewTileNames(Equi7Subgrid(grid, tag)) :
          Called("create_tile_name", [tag |-> tag, name |-> name],
                 create_tile_name(Equi7Subgrid(grid, tag), name))

CreateTileByXY ==
  /\ pc = "ready"
  /\ \E tag \in TileSubgrids, p \in PointPairs :
       Called("create_tile_xy", [tag |-> tag, x |-> p[1], y |-> p[2]],
              create_tile_xy(Equi7Subgrid(grid, tag), p[1], p[2]))

Point2Tilename ==
  /\ pc = "ready"
  /\ \E tag \in TileSubgrids, p \in PointPairs, shortform \in BOOLEAN :
       Called("point2tilename",
              [tag |-> tag, x |-> p[1], y |-> p[2], shortform |-> shortform],
              point2tilename(Equi7Subgrid(grid, tag), p[1], p[2], shortform))

CreateTilesOf(tag, core, xs, ys) ==
  \E unique_x_y \in Enumerations(CornersOf(core, xs, ys)) :
    Called("create_tiles", [tag |-> tag, x |-> xs, y |-> ys],
           create_tiles(core, xs, ys, unique_x_y))

CreateTiles ==
  /\ pc = "ready"
  /\ \E tag \in TileSubgrids, ps \in BatchSeqs :
       CreateTilesOf(tag, Equi7Subgrid(grid, tag),
                     [k \in DOMAIN ps |-> ps[k][1]], [k \in DOMAIN ps |-> ps[k][2]])

LonLat2ij ==
  /\ pc = "ready"
  /\ \E pts \in GeoSeqs, lowerleft \in BOOLEAN :
       \E rank \in Enumerations(GeoCorners(grid, pts)),
          unique_subgrids \in Enumerations(GeoSubgrids(pts)) :
          Called("lonlat2ij_in_tile", [pts |-> pts, lowerleft |-> lowerleft],
                 lonlat2ij_in_tile(grid, pts, lowerleft, rank, unique_subgrids))

SpatialJoin ==
  /\ pc = "ready"
  /\ \E pts \in GeoSeqs :
       Called("get_subgrids_spatial_join", [pts |-> pts],
              Ok(get_subgrids_spatial_join(pts)))

\* tile.xy2ij(x, y, lowerleft) on the tile that create_tile(x=x0, y=y0) made
XY2ijOn(tag, made, x, y, lowerleft) ==
  /\ made.ok
  /\ Called("xy2ij", [tag |-> tag, tile |-> made.val, x |-> x, y |-> y,
                      lowerleft |-> lowerleft],
            Ok(xy2ij(made.val, x, y, lowerleft)))

XY2ij ==
  /\ pc = "ready"
  /\ grid.sampling <= MaxPixelSampling
  /\ \E tag \in TileSubgrids, p \in PixelPoints, q \in PixelPoints, lowerleft \in BOOLEAN :
       XY2ijOn(tag, create_tile_xy(Equi7Subgrid(grid, tag), p[1], p[2]),
               q[1], q[2], lowerleft)

\* the caller takes the result and may call again
\* samplings of the grids whose tiles are asked for their family: one grid
\* per tile class, one with a four-character metres token, and two that are
\* not legal (120 divides the T6 extent, 7 divides no extent)
FamilyGridArgs == {500, 1000, 40, 10, 7, 120}

\* east / north indices of source tiles in units of the grid's extent (tiles
\* at both ends of the three-character name range: index 996 / 999 of each
\* class, index -99 of a T3 tile by -33 and of a T1 tile by -99), and one pair
\* of plain indices that only a T1 grid takes for aligned
FamilyUnits ==
  {<<0 - 1, 0>>, <<0, 0>>, <<2, 5>>, <<166, 0>>, <<0, 333>>, <<333, 333>>,
   <<0 - 33, 0>>, <<0, 0 - 99>>}

FamilyCorners(core) ==
  {<<u[1] * core.tile_xsize_m, u[2] * core.tile_xsize_m>> : u \in FamilyUnits}
    \cup {<<100000, 0>>}

\* the source tile is named in long form or by the last ten characters of it
FamilyNameOf(core, c, short) ==
  IF short
  THEN SliceLast(LongName(core, c[1], c[2], core.sampling, core.tiletype), 10)
  ELSE LongName(core, c[1], c[2], core.sampling, core.tiletype)

TargetSamplings ==
  {NoSampling, Given(10), Given(20), Given(500), Given(1000), Given(7), Given(120)}

TargetTiletypes == {None, T1, T3, T6, <<"T", "2">>}

FamilyOf(tag, tilename, target_sampling, target_tiletype) ==
  Called("get_congruent_tiles_from_tilename",
         [tag |-> tag, tilename |-> tilename, target_sampling |-> target_sampling,
          target_tiletype |-> target_tiletype],
         get_congruent_tiles_from_tilename(Equi7Subgrid(grid, tag), tilename,
                                           target_sampling, target_tiletype))

Family ==
  /\ pc = "ready"
  /\ \E tag \in TileSubgrids, short \in BOOLEAN,
        target_sampling \in TargetSamplings, target_tiletype \in TargetTiletypes :
       \E c \in FamilyCorners(Equi7Subgrid(grid, tag)) :
          FamilyOf(tag, FamilyNameOf(Equi7Subgrid(grid, tag), c, short),
                   target_sampling, target_tiletype)

Return ==
  /\ pc = "done"
  /\ pc' = IF grid.built THEN "ready" ELSE "new"
  /\ op' = "none"
  /\ args' = <<>>
  /\ ret' = Ok(<<>>)
  /\ UNCHANGED grid

\* the sampling / tile class resolver
NextResolver ==
  \/ GetTileType
  \/ GetTileSize
  \/ EncodeSampling
  \/ DecodeSampling
  \/ Return

SpecResolver == Init /\ [][NextResolver]_vars

\* the tile name codec of a constructed grid
NextCodec ==
  \/ Construct(ConstructorArgs)
  \/ EncodeTilename
  \/ DecodeTilename
  \/ Tilename2Short
  \/ Return

SpecCodec == Init /\ [][NextCodec]_vars

\* tiles of a constructed grid
NextTiles ==
  \/ Construct(TileGridArgs)
  \/ CreateTileByName
  \/ CreateTileByXY
  \/ Point2Tilename
  \/ CreateTiles
  \/ LonLat2ij
  \/ Return

SpecTiles == Init /\ [][NextTiles]_vars

\* pixels of the tiles of a constructed grid
NextPixels ==
  \/ Construct(TileGridArgs)
  \/ XY2ij
  \/ Return

SpecPixels == Init /\ [][NextPixels]_vars

NextFamily ==
  \/ Construct(FamilyGridArgs)
  \/ Family
  \/ Return

SpecFamily == Init /\ [][NextFamily]_vars

NextJoin ==
  \/ Construct(TileGridArgs)
  \/ SpatialJoin
  \/ Return

SpecJoin == Init /\ [][NextJoin]_vars

Next == NextResolver \/ NextCodec \/ NextTiles \/ NextPixels \/ NextFamily \/ NextJoin

Spec == Init /\ [][Next]_vars

(***************************************************************************)
(* Properties of the sampling / tile class resolver                        *)
(***************************************************************************)
InT6Rule(s) == 64 <= s /\ s <= 6000 /\ 600000 % s = 0

InT3Rule(s) == 20 <= s /\ s <= 60 /\ 300000 % s = 0

InT1Rule(s) == 1 <= s /\ s <= 16 /\ 100000 % s = 0

\* the class and the extent the three rules give, <<>> when none holds
RuledClass(s) == IF InT6Rule(s) THEN <<T6, 600000>>
                 ELSE IF InT3Rule(s) THEN <<T3, 300000>>
                 ELSE IF InT1Rule(s) THEN <<T1, 100000>>
                 ELSE <<>>

\* C1: for every integer sampling s, get_tiletype / get_tilesize return T6 and
\* 600000 iff 64 <= s <= 6000 and 600000 mod s = 0, else T3 and 300000 iff
\* 20 <= s <= 60 and 300000 mod s = 0, else T1 and 100000 iff 1 <= s <= 16 and
\* 100000 mod s = 0, and fail with the unsupported-sampling error when no rule
\* holds; the x and y extent are equal and are those of the class.
C1_TileClassRule ==
  /\ (pc = "done" /\ op = "get_tiletype") =>
       ret = IF RuledClass(args.sampling) = <<>> THEN Fail(ERR_TILETYPE)
             ELSE Ok(RuledClass(args.sampling)[1])
  /\ (pc = "done" /\ op = "get_tilesize") =>
       ret = IF RuledClass(args.sampling) = <<>> THEN Fail(ERR_TILETYPE)
             ELSE Ok(<<RuledClass(args.sampling)[2], RuledClass(args.sampling)[2]>>)

\* get_tilesize(60) has returned (300000, 300000)
C1_Witness ==
  /\ pc = "done" /\ op = "get_tilesize" /\ args.sampling = 60
  /\ ret = Ok(<<300000, 300000>>)

\* the number (as a digit string) that a padded token spells
PaddedDecimal(s) ==
  <<DigitChars[(s \div 100) + 1], DigitChars[((s \div 10) % 10) + 1],
    DigitChars[(s % 10) + 1]>>

\* C7: decode_sampling(encode_sampling(s, mode), mode) = s for every legal
\* sampling s in both modes; in kilometre mode, for s in 1000..9999 the round
\* trip holds exactly when s is a multiple of 100; for s < 1000 the token is
\* the 3-digit zero-padded decimal value.
C7_SamplingRoundTrip ==
  (pc = "done" /\ op = "encode_sampling") =>
     /\ ret.ok
     /\ args.sampling \in static_sampling =>
          decode_sampling(ret.val, args.tile_names_in_m) = Ok(args.sampling)
     /\ (~args.tile_names_in_m /\ args.sampling \in 1000..9999) =>
          ((decode_sampling(ret.val, FALSE) = Ok(args.sampling))
             <=> (args.sampling % 100 = 0))
     /\ args.sampling < 1000 => ret.val = PaddedDecimal(args.sampling)

\* encode_sampling(1234) has returned '1K2' in kilometre mode, which decodes
\* to 1200
C7_Witness ==
  /\ pc = "done" /\ op = "encode_sampling"
  /\ args.sampling = 1234 /\ ~args.tile_names_in_m
  /\ ret.val = <<"1", "K", "2">>
  /\ decode_sampling(ret.val, FALSE) = Ok(1200)

RulesHolding(s) ==
  Cardinality({r \in {6, 3, 1} : CASE r = 6 -> InT6Rule(s)
                                   [] r = 3 -> InT3Rule(s)
                                   [] r = 1 -> InT1Rule(s)})

\* C8: every legal sampling satisfies the rule of exactly one tile class, the
\* resolver never fails for it, and no sampling satisfies two rules.
C8_LegalSetDeterminism ==
  /\ Cardinality(static_sampling) = 34
  /\ (pc = "done" /\ op = "get_tiletype") =>
       /\ args.sampling > 0 => RulesHolding(args.sampling) <= 1
       /\ args.sampling \in static_sampling =>
            /\ RulesHolding(args.sampling) = 1
            /\ ret.ok /\ ret.val \in static_tilecodes

\* get_tiletype(6000), the largest legal sampling, has returned T6
C8_Witness ==
  /\ pc = "done" /\ op = "get_tiletype" /\ args.sampling = 6000
  /\ ret = Ok(T6)

(***************************************************************************)
(* Properties of the tile name codec                                       *)
(***************************************************************************)
\* the tiling system the call was made on
CalledCore == Equi7Subgrid(grid, args.tag)

\* encode_tilename was called with the grid's own sampling and tile class
EncodedOwn ==
  /\ pc = "done" /\ op = "encode_tilename"
  /\ args.sampling = grid.sampling /\ args.tilecode = grid.tiletype
  /\ args.llx >= 0 /\ args.llx % grid.tile_xsize_m = 0
  /\ args.lly >= 0 /\ args.lly % grid.tile_ysize_m = 0

\* the corner has east and north indices of at most three digits
InNameRange == args.llx < 100000000 /\ args.lly < 100000000

RoundTrips ==
  /\ ret.ok
  /\ decode_tilename(CalledCore, ret.val)
       = Ok(TileTuple(args.tag, args.sampling, grid.tile_xsize_m, args.llx, args.lly,
                      args.tilecode))

\* C2 (as stated): for every legal sampling, every subgrid tag and every corner
\* whose coordinates are non-negative multiples of the tile extent,
\* decode_tilename(encode_tilename(llx, lly, sampling, class)) returns
\* (tag, sampling, extent, llx, lly, class), in long form and with
\* shortform=True.
C2_RoundTripEveryCorner == EncodedOwn => RoundTrips

\* C2 (amended): the round trip holds for the corners below 100 000 km, the
\* ones whose east and north indices fit the three digits of the name.
C2_RoundTripInNameRange == (EncodedOwn /\ InNameRange) => RoundTrips

\* the short name of corner (1200000, 600000) of a T6 grid was encoded and
\* decodes to that corner
C2_Witness ==
  /\ EncodedOwn /\ InNameRange /\ args.shortform
  /\ args.llx = 1200000 /\ args.lly = 600000
  /\ ret.val = <<"E", "0", "1", "2", "N", "0", "0", "6", "T", "6">>
  /\ decode_tilename(CalledCore, ret.val).val.llx = 1200000

\* the 10-character block E<east:03d>N<north:03d><class>
NameBlockOf(llx, lly, tilecode) ==
  <<"E">> \o Format03d(llx \div 100000) \o <<"N">> \o Format03d(lly \div 100000)
    \o tilecode

\* the canonical name of a tuple, in the form of the given string
CanonicalName(core, t, short) ==
  IF short THEN NameBlockOf(t.llx, t.lly, t.tilecode)
  ELSE LongName(core, t.llx, t.lly, t.sampling, t.tilecode)

\* C3: every string decode_tilename accepts is the canonical string that
\* encode_tilename produces for the decoded tuple in the same form, so no
\* string with wrong literal characters ('E', 'N', 'M_') is accepted.
C3_Bijection ==
  (pc = "done" /\ op = "decode_tilename" /\ ret.ok) =>
     args.tilename = CanonicalName(CalledCore, ret.val, Len(args.tilename) = 10)

\* the block of east, north and class of a name
BlockOf(tilename) ==
  IF Len(tilename) = 10 THEN Ok(tilename) ELSE SplitSecond(tilename, "_")

\* a long name carries the tag and the sampling of the tiling system
HeaderMatches(core, tilename) ==
  \/ Len(tilename) = 10
  \/ /\ Slice(tilename, 0, 2) = core.tag
     /\ decode_sampling(SplitHead(SliceFrom(tilename, 2), "M"), core.tile_names_in_m)
          = Ok(core.sampling)

SizeDigitMatches(core, block) ==
  /\ block.ok /\ block.val # <<>>
  /\ ParseInt(SliceLast(block.val, 1)) = Ok(core.tile_xsize_m \div 100000)

ClassTokenMatches(core, block) ==
  block.ok /\ SliceLast(block.val, 2) = core.tiletype

EastField(block) == ParseInt(Slice(block.val, 1, 4))

NorthField(block) == ParseInt(Slice(block.val, 5, 8))

Unaligned(core, field) ==
  field.ok /\ field.val % (core.tile_ysize_m \div 100000) # 0

\* decode_tilename was called with a name whose tag, sampling and size digit
\* match the grid
DecodedMatching ==
  /\ pc = "done" /\ op = "decode_tilename"
  /\ HeaderMatches(CalledCore, args.tilename)
  /\ SizeDigitMatches(CalledCore, BlockOf(args.tilename))

\* ... and whose east index, or whose north index after an integer east
\* index, is an integer that is not a multiple of the tile factor
DecodedUnaligned ==
  /\ DecodedMatching
  /\ \/ Unaligned(CalledCore, EastField(BlockOf(args.tilename)))
     \/ /\ EastField(BlockOf(args.tilename)).ok
        /\ Unaligned(CalledCore, NorthField(BlockOf(args.tilename)))

\* C4 (as stated): decode_tilename of any name, short or long, whose tag,
\* sampling and size digit match the grid but whose east or north field is not
\* a multiple of extent / 100000 fails with the 'must be multiples of' error
\* and returns no tuple.
C4_AlignmentRejectionAnyName ==
  (/\ DecodedMatching
   /\ \/ Unaligned(CalledCore, EastField(BlockOf(args.tilename)))
      \/ Unaligned(CalledCore, NorthField(BlockOf(args.tilename))))
    => ret = Fail(MSG2)

\* C4 (amended): the alignment error is raised when the east field is an
\* integer that is not a multiple, or the east field is an integer and the
\* north field is an integer that is not a multiple; the corner is never
\* rounded.
C4_AlignmentRejection == DecodedUnaligned => ret = Fail(MSG2)

\* 'E011N018T6' was decoded on a T6 grid and failed with the alignment error
C4_Witness ==
  /\ DecodedUnaligned /\ grid.tiletype = T6
  /\ args.tilename = <<"E", "0", "1", "1", "N", "0", "1", "8", "T", "6">>
  /\ ret = Fail(MSG2)

\* C5: decode_tilename returns a tuple only if every structural check passes:
\* tag, decoded sampling, size digit and class token of a long name, size
\* digit and class token of a short name are the grid's, the corner is
\* aligned, and the tuple carries the grid's tag, sampling, extent and class.
C5_ExhaustiveValidation ==
  (pc = "done" /\ op = "decode_tilename" /\ ret.ok) =>
     /\ HeaderMatches(CalledCore, args.tilename)
     /\ SizeDigitMatches(CalledCore, BlockOf(args.tilename))
     /\ ClassTokenMatches(CalledCore, BlockOf(args.tilename))
     /\ ret.val.subgrid_id = args.tag /\ ret.val.sampling = grid.sampling
     /\ ret.val.tile_size_m = grid.tile_xsize_m /\ ret.val.tilecode = grid.tiletype
     /\ ret.val.llx % grid.tile_xsize_m = 0 /\ ret.val.lly % grid.tile_ysize_m = 0

\* a long name was decoded whose class token alone differs from the grid's
\* (same size digit), and the call failed with the malformed-name error
C5_Witness ==
  /\ pc = "done" /\ op = "decode_tilename" /\ Len(args.tilename) # 10
  /\ HeaderMatches(CalledCore, args.tilename)
  /\ SizeDigitMatches(CalledCore, BlockOf(args.tilename))
  /\ ~ClassTokenMatches(CalledCore, BlockOf(args.tilename))
  /\ ret = Fail(MSG1)

\* C6: for every legal sampling, in both naming modes, encode_tilename with
\* shortform=True returns the 10-character block E<east:03d>N<north:03d><class>
\* (the long name without its '<tag><token>M_' prefix); and tilename2short of
\* an already short name returns it unchanged.
C6_ShortFormEncoding ==
  /\ (EncodedOwn /\ InNameRange /\ args.shortform) =>
        ret = Ok(NameBlockOf(args.llx, args.lly, args.tilecode))
  /\ (pc = "done" /\ op = "tilename2short" /\ Len(args.tilename) = 10 /\ ret.ok) =>
        ret.val = args.tilename

(***************************************************************************)
(* Properties of tiles                                                     *)
(***************************************************************************)
\* the largest multiple of extent that is at most x
AlignedBelow(x, extent) == (x \div extent) * extent

\* the east / north index of a corner fits the three characters of the name
FitsName(ll) == (ll \div 100000) \in (0 - 99)..999

\* the tile is the one of point (x, y): aligned, containing the point, and
\* named by the long form of its corner
IsTileOf(tile, core, x, y) ==
  /\ tile.llx = AlignedBelow(x, core.tile_xsize_m)
  /\ tile.lly = AlignedBelow(y, core.tile_ysize_m)
  /\ tile.llx % core.tile_xsize_m = 0 /\ tile.lly % core.tile_ysize_m = 0
  /\ tile.llx <= x /\ x < tile.llx + core.tile_xsize_m
  /\ tile.lly <= y /\ y < tile.lly + core.tile_ysize_m
  /\ tile.name = LongName(core, tile.llx, tile.lly, core.sampling, core.tiletype)

\* C9: the tile returned by create_tile(x=x, y=y), and named by
\* point2tilename, has the corner llx = floor(x/extent)*extent,
\* lly = floor(y/extent)*extent, which is aligned and whose tile contains the
\* point, and its name is the long form of that corner; a tile is returned
\* whenever the indices of the corner fit the name; every tile built by
\* create_tile from a name has an aligned corner.
C9_TileContainment ==
  /\ (pc = "done" /\ op = "create_tile_xy") =>
        /\ ret.ok => IsTileOf(ret.val, CalledCore, args.x, args.y)
        /\ (/\ FitsName(AlignedBelow(args.x, grid.tile_xsize_m))
            /\ FitsName(AlignedBelow(args.y, grid.tile_ysize_m))) => ret.ok
  /\ (pc = "done" /\ op = "point2tilename" /\ ~args.shortform) =>
        ret = Ok(LongName(CalledCore, AlignedBelow(args.x, grid.tile_xsize_m),
                          AlignedBelow(args.y, grid.tile_ysize_m),
                          grid.sampling, grid.tiletype))
  /\ (pc = "done" /\ op = "create_tile_name" /\ ret.ok) =>
        /\ ret.val.llx % grid.tile_xsize_m = 0
        /\ ret.val.lly % grid.tile_ysize_m = 0

\* create_tile(x=112345, y=318210) on subgrid EU of the 500 m grid has
\* returned the tile 'EU500M_E000N000T6'
C9_Witness ==
  /\ pc = "done" /\ op = "create_tile_xy" /\ grid.sampling = 500 /\ args.tag = EU
  /\ args.x = 112345 /\ args.y = 318210
  /\ ret.ok /\ ret.val.llx = 0 /\ ret.val.lly = 0
  /\ ret.val.name = <<"E", "U", "5", "0", "0", "M", "_", "E", "0", "0", "0", "N",
                      "0", "0", "0", "T", "6">>

\* the scalar call for the point at position k of a batch
ScalarTile(k) == create_tile_xy(CalledCore, args.x[k], args.y[k])

\* the scalar call for the point at position k of a batch of geodetic points
ScalarPixel(k) ==
  lonlat2ij_in_tile(grid, <<args.pts[k]>>, args.lowerleft,
                    <<round_xy2lowerleft(Equi7Subgrid(grid, EU), args.pts[k].x,
                                         args.pts[k].y)>>,
                    CHOOSE o \in Enumerations(GeoSubgrids(<<args.pts[k]>>)) : TRUE)

\* C10: batch create_tile(x=xs, y=ys) returns (tiles, tiles_idx) such that for
\* every input index k, tiles[tiles_idx[k]] is the tile (name, corner,
\* covers_land) of the scalar create_tile(x=xs[k], y=ys[k]), with one tile per
\* distinct corner; a batch fails only with the exception of one of its
\* points; and in lonlat2ij_in_tile the name and pixel indices at output index
\* k are those of input point k, however the points are grouped.
C10_BatchEqualsScalar ==
  /\ (pc = "done" /\ op = "create_tiles" /\ ret.ok) =>
        /\ \A k \in DOMAIN args.x :
              ScalarTile(k) = Ok(ret.val.tiles[ret.val.tiles_idx[k] + 1])
        /\ DOMAIN ret.val.tiles_idx = DOMAIN args.x
        /\ Len(ret.val.tiles) = Cardinality(CornersOf(CalledCore, args.x, args.y))
        /\ \A i, j \in DOMAIN ret.val.tiles :
              (ret.val.tiles[i].llx = ret.val.tiles[j].llx
                 /\ ret.val.tiles[i].lly = ret.val.tiles[j].lly) => i = j
  /\ (pc = "done" /\ op = "create_tiles" /\ ~ret.ok) =>
        \E k \in DOMAIN args.x : ScalarTile(k) = ret
  /\ (pc = "done" /\ op = "lonlat2ij_in_tile" /\ ret.ok) =>
        /\ DOMAIN ret.val = DOMAIN args.pts
        /\ \A k \in DOMAIN args.pts : ScalarPixel(k) = Ok(<<ret.val[k]>>)

\* a batch of three points of a T6 grid has returned two tiles, enumerated in
\* the order opposite to that of the input: the first and the third point are
\* in the second tile, the second point in the first
C10_Witness ==
  /\ pc = "done" /\ op = "create_tiles" /\ ret.ok /\ grid.tiletype = T6
  /\ args.x = <<112345, 600000, 0>> /\ args.y = <<318210, 318210, 0>>
  /\ Len(ret.val.tiles) = 2
  /\ ret.val.tiles_idx = <<1, 0, 1>>
  /\ ret.val.tiles[1].llx = 600000 /\ ret.val.tiles[2].llx = 0

(***************************************************************************)
(* Properties of pixel indices                                             *)
(***************************************************************************)
\* xy2ij was called on a tile
PixelAsked == pc = "done" /\ op = "xy2ij"

\* floor(a / b) for b > 0
FloorOf(a, b) == a \div b

\* C11: for a tile with corner (llx, lly), extent e and sampling s, xy2ij(x, y)
\* returns column = floor((x - llx)/s), and row = floor((lly + e - y)/s) when
\* lowerleft=False, row = floor((y - lly)/s) when lowerleft=True; the values
\* are floored, never rounded to nearest.
C11_PixelFormula ==
  PixelAsked =>
    /\ ret.ok
    /\ ret.val[1] = FloorOf(args.x - args.tile.llx, grid.sampling)
    /\ ret.val[2] = IF args.lowerleft
                    THEN FloorOf(args.y - args.tile.lly, grid.sampling)
                    ELSE FloorOf(args.tile.lly + grid.tile_ysize_m - args.y,
                                 grid.sampling)

\* on tile EU500M_E000N000T6 of the 500 m grid, point (112345, 318210) has
\* column 224 and row 563 from the top
C11_Witness ==
  /\ PixelAsked /\ grid.sampling = 500 /\ args.tag = EU /\ ~args.lowerleft
  /\ args.tile.llx = 0 /\ args.tile.lly = 0
  /\ args.x = 112345 /\ args.y = 318210
  /\ ret = Ok(<<224, 563>>)

\* the tile asked for its pixel is the tile create_tile assigns to the point
PixelOfOwnTile ==
  /\ PixelAsked
  /\ args.tile.llx = AlignedBelow(args.x, grid.tile_xsize_m)
  /\ args.tile.lly = AlignedBelow(args.y, grid.tile_ysize_m)

\* C19: for every planar point and the tile create_tile assigns to it (points
\* on the south or west edge included), xy2ij returns a column and a row in
\* 0 .. extent/sampling - 1, under the top-down and the bottom-up convention.
C19_PixelInsideTile ==
  PixelOfOwnTile =>
    /\ ret.ok
    /\ 0 <= ret.val[1] /\ ret.val[1] < grid.tile_xsize_m \div grid.sampling
    /\ 0 <= ret.val[2] /\ ret.val[2] < grid.tile_ysize_m \div grid.sampling

(***************************************************************************)
(* Properties of the family tiles                                          *)
(***************************************************************************)
FamilyAsked == pc = "done" /\ op = "get_congruent_tiles_from_tilename"

\* the source tile T, as the grid of the call decodes its name
SourceTile == decode_tilename(CalledCore, args.tilename)

\* the sampling that stands for a target given by its class alone
SamplingOfClass(tilecode) ==
  CASE tilecode = T1 -> 10 [] tilecode = T3 -> 20 [] tilecode = T6 -> 500

\* the target of the call is a legal sampling, or one of the three classes
TargetLegal ==
  IF args.target_sampling.given THEN args.target_sampling.val \in static_sampling
  ELSE args.target_tiletype \in static_tilecodes

TargetSampling ==
  IF args.target_sampling.given THEN args.target_sampling.val
  ELSE SamplingOfClass(args.target_tiletype)

TargetClass == get_tiletype(TargetSampling).val

TargetExtent == TileSizeOf(TargetClass)

\* the tiling system of the subgrid of the source tile on the target grid
TargetCore == Equi7Subgrid(Equi7Grid(TargetSampling, FALSE).val, args.tag)

\* the call asks for the tiles of a smaller class inside a valid tile
AskedInside ==
  /\ FamilyAsked /\ SourceTile.ok /\ TargetLegal
  /\ TargetExtent < SourceTile.val.tile_size_m

\* the corners of the n * n tiles of extent te that tile the source tile
CornersInside(src, te) ==
  {<<src.llx + i * te, src.lly + j * te>> :
     i \in 0..(src.tile_size_m \div te - 1), j \in 0..(src.tile_size_m \div te - 1)}

\* the ten-character name of a tile
ShortNameOf(tile) ==
  <<"E">> \o Format03d(tile.llx \div 100000) \o <<"N">>
    \o Format03d(tile.lly \div 100000) \o tile.tilecode

\* the family of a child towards the class of tile src, on the child's grid
ParentByClass(child, src) ==
  get_congruent_tiles_from_tilename(TargetCore, child, NoSampling, src.tilecode)

ParentBySampling(child, src) ==
  get_congruent_tiles_from_tilename(TargetCore, child, Given(src.sampling), None)

\* the one name returned is the long name of tile src on the grid of its
\* sampling
IsLongNameOf(names, src) ==
  /\ names.ok /\ Len(names.val) = 1
  /\ decode_tilename(Equi7Subgrid(Equi7Grid(src.sampling, FALSE).val, src.subgrid_id),
                     names.val[1])
       = Ok(src)

NestsIn(src, names) ==
  /\ names.ok
  /\ Len(names.val) = (src.tile_size_m \div TargetExtent) * (src.tile_size_m \div TargetExtent)
  /\ src.tile_size_m \div TargetExtent \in {2, 3, 6}
  /\ \A k, l \in 1..Len(names.val) : names.val[k] = names.val[l] => k = l
  /\ \A k \in 1..Len(names.val) : tilename2lowerleft(TargetCore, names.val[k]).ok
  /\ {tilename2lowerleft(TargetCore, names.val[k]).val : k \in 1..Len(names.val)}
       = CornersInside(src, TargetExtent)
  /\ \A k \in 1..Len(names.val) :
       /\ ParentByClass(names.val[k], src) = Ok(<<ShortNameOf(src)>>)
       /\ IsLongNameOf(ParentBySampling(names.val[k], src), src)

\* the indices of all children of extent te of the tile fit the three
\* characters of a name: those of the north-east child do
ChildrenFitName(src, te) ==
  /\ FitsName(src.llx + src.tile_size_m - te)
  /\ FitsName(src.lly + src.tile_size_m - te)

\* C12 as stated: for any valid tile T of a grid and a target of a smaller
\* tile class, the family query returns exactly n * n pairwise distinct names
\* whose corners are exactly the n * n corners that tile T, and the family
\* query of each child towards T's class returns exactly T.
C12_FamilyNesting == AskedInside => NestsIn(SourceTile.val, ret)

\* C12, amended: the same for every valid tile T whose children of the target
\* class all have an east and a north index of at most three characters.
C12_FamilyNestingInNameRange ==
  (AskedInside /\ ChildrenFitName(SourceTile.val, TargetExtent)) => NestsIn(SourceTile.val, ret)

\* the T6 tile E012N030 of the 500 m grid has 36 T1 children
C12_Witness ==
  /\ AskedInside /\ ChildrenFitName(SourceTile.val, TargetExtent)
  /\ grid.sampling = 500 /\ SourceTile.val.llx = 1200000 /\ SourceTile.val.lly = 3000000
  /\ TargetClass = T1 /\ ret.ok /\ Len(ret.val) = 36

\* the corner of the tile of extent te around the corner of tile src
CornerAround(src, te) == <<(src.llx \div te) * te, (src.lly \div te) * te>>

\* the one name returned is the name of the target tile around tile src, and
\* that tile contains the whole of src
NamesTileAround(src, names) ==
  /\ names.ok /\ Len(names.val) = 1
  /\ tilename2lowerleft(TargetCore, names.val[1]) = Ok(CornerAround(src, TargetExtent))
  /\ SliceLast(names.val[1], 2) = TargetClass
  /\ CornerAround(src, TargetExtent)[1] <= src.llx
  /\ src.llx + src.tile_size_m <= CornerAround(src, TargetExtent)[1] + TargetExtent
  /\ CornerAround(src, TargetExtent)[2] <= src.lly
  /\ src.lly + src.tile_size_m <= CornerAround(src, TargetExtent)[2] + TargetExtent

\* the indices of the corner of the tile of extent te around tile src fit the
\* three characters of a name
AroundFitsName(src, te) ==
  /\ FitsName(CornerAround(src, te)[1])
  /\ FitsName(CornerAround(src, te)[2])

\* C13 as stated: the single-result branch is taken exactly when the target extent is at
\* least the source extent (equal classes included) and returns exactly the
\* name of the target tile with corner (floor(llx/te)*te, floor(lly/te)*te),
\* which contains the whole source tile; the n * n branch is taken exactly when
\* the target extent is smaller; the comparison of the class tokens agrees
\* with the ordering by extent for all 9 pairs of classes.
C13_CaseSplitByExtent ==
  /\ \A a \in static_tilecodes, b \in static_tilecodes :
       StrGE(a, b) <=> TileSizeOf(a) >= TileSizeOf(b)
  /\ (FamilyAsked /\ SourceTile.ok /\ TargetLegal) =>
       /\ StrGE(TargetClass, SourceTile.val.tilecode)
            <=> TargetExtent >= SourceTile.val.tile_size_m
       /\ TargetExtent >= SourceTile.val.tile_size_m => NamesTileAround(SourceTile.val, ret)
       /\ TargetExtent < SourceTile.val.tile_size_m =>
            /\ ChildrenFitName(SourceTile.val, TargetExtent) => ret.ok
            /\ ret.ok =>
                 /\ Len(ret.val) = (SourceTile.val.tile_size_m \div TargetExtent)
                                     * (SourceTile.val.tile_size_m \div TargetExtent)
                 /\ Len(ret.val) > 1

\* C13, amended: the same, the one name being that of the tile around the
\* source tile whenever the indices of that tile's corner have at most three
\* characters (they have four for a source tile at index -99 .. -97 and a T6
\* target, whose corner has index -102).
C13_CaseSplitInNameRange ==
  /\ \A a \in static_tilecodes, b \in static_tilecodes :
       StrGE(a, b) <=> TileSizeOf(a) >= TileSizeOf(b)
  /\ (FamilyAsked /\ SourceTile.ok /\ TargetLegal) =>
       /\ StrGE(TargetClass, SourceTile.val.tilecode)
            <=> TargetExtent >= SourceTile.val.tile_size_m
       /\ TargetExtent >= SourceTile.val.tile_size_m =>
            /\ ret.ok => Len(ret.val) = 1
            /\ AroundFitsName(SourceTile.val, TargetExtent)
                 => NamesTileAround(SourceTile.val, ret)
       /\ TargetExtent < SourceTile.val.tile_size_m =>
            /\ ChildrenFitName(SourceTile.val, TargetExtent) => ret.ok
            /\ ret.ok =>
                 /\ Len(ret.val) = (SourceTile.val.tile_size_m \div TargetExtent)
                                     * (SourceTile.val.tile_size_m \div TargetExtent)
                 /\ Len(ret.val) > 1

\* the T1 tile E166N000 of the 10 m grid lies in the T6 tile E162N000
C13_Witness ==
  /\ FamilyAsked /\ SourceTile.ok /\ TargetLegal
  /\ AroundFitsName(SourceTile.val, TargetExtent)
  /\ grid.sampling = 10 /\ SourceTile.val.llx = 16600000 /\ SourceTile.val.lly = 0
  /\ TargetClass = T6 /\ ~args.target_sampling.given
  /\ ret = Ok(<<<<"E", "1", "6", "2", "N", "0", "0", "0", "T", "6">>>>)

\* a long name of the subgrid of the call and of the target class
IsLongFormOf(name) ==
  /\ Len(name) > 10
  /\ Slice(name, 0, 2) = args.tag
  /\ SplitHead(SliceFrom(name, 2), "M") = encode_sampling(TargetSampling, FALSE)
  /\ Positions(name, "_") # {}
  /\ SliceLast(name, 2) = TargetClass

\* a short name of the target class: ten characters without a tag, which the
\* tiling system of the subgrid of the call reads, on the target grid, as a
\* tile of that subgrid
IsShortFormOf(name) ==
  /\ Len(name) = 10
  /\ name[1] = "E" /\ name[5] = "N"
  /\ SliceLast(name, 2) = TargetClass
  /\ decode_tilename(TargetCore, name).ok
  /\ decode_tilename(TargetCore, name).val.subgrid_id = args.tag

\* the name starts with the tag of the subgrid of the source tile
CarriesTag(name) == Len(name) >= 2 /\ Slice(name, 0, 2) = args.tag

\* the name ends with the token of the target class
CarriesClass(name) == Len(name) >= 2 /\ SliceLast(name, 2) = TargetClass

NamesFormed(names) ==
  \A k \in 1..Len(names) :
    /\ CarriesTag(names[k]) /\ CarriesClass(names[k])
    /\ IF args.target_sampling.given THEN IsLongFormOf(names[k])
       ELSE IsShortFormOf(names[k])

\* a class that is none of T1, T3, T6 is given without a sampling
AskedByUnknownClass ==
  /\ FamilyAsked /\ ~args.target_sampling.given
  /\ args.target_tiletype # None /\ args.target_tiletype \notin static_tilecodes

\* the source tile has no child of the target class whose index needs a
\* fourth character
NoChildBeyondName ==
  SourceTile.ok /\ TargetLegal /\ TargetExtent < SourceTile.val.tile_size_m
    => ChildrenFitName(SourceTile.val, TargetExtent)

\* C14 as stated: every name returned carries the subgrid tag of the source
\* tile and the target class; the names are long form whenever a target
\* sampling is given (the sampling deciding the class when both are given) and
\* short form when only a target class is given; a class other than T1, T3, T6
\* given without a sampling fails with the tilecode error.
C14_FamilyNameForm ==
  /\ AskedByUnknownClass => ret = Fail(MSG3)
  /\ (FamilyAsked /\ ret.ok) => NamesFormed(ret.val)

\* C14, amended: every name returned carries the target class; the names are
\* long form, starting with the subgrid tag of the source tile, whenever a
\* target sampling is given (the sampling deciding the class when both are
\* given); when only a target class is given they are short form, which holds
\* no tag, for every source tile whose children of the target class all have
\* indices of at most three characters; a class other than T1, T3, T6 given
\* without a sampling fails with the tilecode error.
C14_FamilyNameFormInNameRange ==
  /\ AskedByUnknownClass => ret = Fail(MSG3)
  /\ (FamilyAsked /\ ret.ok) =>
       /\ \A k \in 1..Len(ret.val) : CarriesClass(ret.val[k])
       /\ args.target_sampling.given =>
            \A k \in 1..Len(ret.val) :
              CarriesTag(ret.val[k]) /\ IsLongFormOf(ret.val[k])
       /\ (~args.target_sampling.given /\ NoChildBeyondName) =>
            \A k \in 1..Len(ret.val) : IsShortFormOf(ret.val[k])

\* sampling 1000 and class T1 given together for a T6 tile of subgrid AF: one
\* long name of class T6
C14_Witness ==
  /\ FamilyAsked /\ ret.ok /\ NoChildBeyondName
  /\ args.tag = AF /\ grid.sampling = 500
  /\ args.target_sampling = Given(1000) /\ args.target_tiletype = T1
  /\ Len(ret.val) = 1 /\ IsLongFormOf(ret.val[1]) /\ SliceLast(ret.val[1], 2) = T6

ConstructorCalled == op = "Equi7Grid"

\* the family is asked for with a target sampling outside the legal set
AskedByIllegalSampling ==
  /\ FamilyAsked /\ args.target_sampling.given
  /\ args.target_sampling.val \notin static_sampling

\* C18: constructing a grid with a sampling outside the legal set fails with
\* the unsupported-sampling error and creates no grid; a family query with
\* such a target sampling fails with it and returns no tile name.
C18_NoBestGuessSampling ==
  /\ (ConstructorCalled /\ args.sampling \notin static_sampling) =>
        /\ pc = "done" /\ ret = Fail(ERR_SAMPLING)
        /\ grid = NoGrid /\ ~grid.built
  /\ (ConstructorCalled /\ args.sampling \in static_sampling) =>
        /\ pc = "ready" /\ ret.ok
        /\ grid.built /\ grid.sampling = args.sampling
  /\ AskedByIllegalSampling => ret = Fail(ERR_SAMPLING)

\* a valid T6 tile asked for its family at 120 m, which divides the T6 extent
\* but is not a legal sampling
C18_Witness ==
  /\ AskedByIllegalSampling /\ SourceTile.ok
  /\ args.target_sampling = Given(120) /\ args.target_tiletype = T6
  /\ grid.sampling = 500
  /\ ret = Fail(ERR_SAMPLING)

(***************************************************************************)
(* Properties of the subgrid resolution                                    *)
(***************************************************************************)
JoinAsked == pc = "done" /\ op = "get_subgrids_spatial_join"

\* the tag of the one polygon the point is within, else none
OnlyTagOf(pt) ==
  IF Cardinality(pt.within) = 1 THEN CHOOSE t \in pt.within : TRUE ELSE None

\* C15: get_subgrids_spatial_join returns one result per input point in input
\* order; the result is the tag of the subgrid when the point lies within
\* exactly one extent polygon, and none both when it lies within no polygon and
\* when it lies within more than one; it never picks one of several subgrids.
C15_ResolutionExclusivity ==
  JoinAsked =>
    /\ ret.ok
    /\ Len(ret.val) = Len(args.pts)
    /\ \A k \in 1..Len(args.pts) : ret.val[k] = OnlyTagOf(args.pts[k])

\* a batch of geodetic points is asked for its pixels, and one of the points
\* is within no polygon or within several
BatchWithUnresolved ==
  /\ pc = "done" /\ op = "lonlat2ij_in_tile"
  /\ \E k \in 1..Len(args.pts) : Cardinality(args.pts[k].within) # 1

\* C16: when a batch passed to lonlat2ij_in_tile contains a point that resolves
\* to no subgrid, the call still completes, returns an absent entry in that
\* point's slot and the correct tile name and pixel indices for every other
\* point.
C16_FailureIsolation ==
  BatchWithUnresolved =>
    /\ ret.ok
    /\ Len(ret.val) = Len(args.pts)
    /\ \A k \in 1..Len(args.pts) :
         IF Cardinality(args.pts[k].within) = 1
         THEN ScalarPixel(k).ok /\ ret.val[k] = ScalarPixel(k).val[1]
         ELSE ret.val[k] = None

(***************************************************************************)
(* Properties of the land coverage                                         *)
(***************************************************************************)
\* create_tile, by name or by coordinate, has returned a tile
TileCreated ==
  /\ pc = "done" /\ op \in {"create_tile_name", "create_tile_xy"} /\ ret.ok

\* the ten-character short name of the tile at a corner
ShortNameAt(tile) ==
  ShortBlock(tile.llx \div 100000, tile.lly \div 100000, tile.core.tiletype)

\* C17: for every tile constructed by create_tile, on a grid of any legal
\* sampling and either naming mode, covers_land is true exactly when the
\* tile's 10-character short name is a member of the coverage set of the
\* owning subgrid for the tile's class; Equi7Tile.shortname is that short name.
C17_LandCoverageLookup ==
  TileCreated =>
    /\ ret.val.covers_land
         <=> ShortNameAt(ret.val) \in coverland(args.tag, ret.val.core.tiletype)
    /\ shortname(ret.val) = ShortNameAt(ret.val)

====
